---- MODULE Spec2Model ----
(***************************************************************************)
(* State-machine model of MonitoringCollector                              *)
(* (src/flask/src/flask/monitoring.py) and of AlertManager                 *)
(* (src/flask/src/flask/notifications.py).                                 *)
(*                                                                         *)
(* Every thread is a caller of the public methods.  A method body is cut   *)
(* into steps at the source lines named in the program counter values      *)
(* ("rr_90" is line 90 of record_request); an augmented assignment         *)
(* `x += 1` is a load step followed by a store step ("rr_90" / "rr_90s"),  *)
(* as the interpreter executes it.  Real-valued quotients are kept as      *)
(* exact fractions [num, den]; time is counted in whole hours.             *)
(*                                                                         *)
(* Ghost state (not in the program): `log`, the samples in the order they  *)
(* were appended; `done`, the arguments of the calls of record_request     *)
(* that have returned, in the order they returned; the field `uid` of a    *)
(* sample, the identity of the RequestMetrics object (the objects are      *)
(* numbered in the order they are created, which happens inside the lock); *)
(* `contended`, whether some record_request call took the lock while       *)
(* another record_request call was in progress.  For the AlertManager:     *)
(* `issued`, the ids made by add_alert in order; `before[t]`, the ledger   *)
(* when thread t took the lock; `prev[t]`, the previous call of thread t.  *)
(* The clock `now` advances between calls in SpecClock and SpecAlertClock, *)
(* at any moment in SpecOrder, and stands still in the other               *)
(* specifications.                                                         *)
(***************************************************************************)
EXTENDS Integers, Sequences, FiniteSets, TLC

VARIABLES
    constructed,        \* "ok" | "ValueError": outcome of __init__
    max_history,        \* self._max_history (the argument of __init__)
    request_history,    \* self._request_history, a deque(maxlen=max_history)
    lock,               \* self._lock: NoThread when free, else the holder
    total_requests,     \* self._total_requests
    total_errors,       \* self._total_errors
    status_code_counts, \* self._status_code_counts (defaultdict(int))
    path_counts,        \* self._path_counts
    method_counts,      \* self._method_counts
    error_type_counts,  \* self._error_type_counts
    endpoint_counts,    \* self._endpoint_counts
    response_times,     \* self._response_times, a deque(maxlen=1000)
    start_time,         \* self._start_time
    now,                \* the wall clock read by time.time()
    pc,                 \* pc[t]: position of thread t
    args,               \* args[t]: arguments of the call thread t is in
    metrics,            \* metrics[t]: the local RequestMetrics of record_request
    tmp,                \* tmp[t]: the value loaded by the load half of `+=`
    ret,                \* ret[t]: the value the last call of t returned
    log,                \* ghost: every sample appended, in order
    done,               \* ghost: arguments of the returned record_request calls
    contended,          \* ghost: two record_request calls have overlapped
    alert_constructed,  \* "ok" | "ValueError": outcome of AlertManager.__init__
    max_alerts,         \* AlertManager._max_alerts
    alerts,             \* AlertManager._alerts, a deque(maxlen=max_alerts)
    alert_lock,         \* AlertManager._lock
    alert_counter,      \* AlertManager._alert_counter
    issued,             \* ghost: the ids made by add_alert, in order
    before,             \* ghost: before[t], the ledger when t's call took the lock
    prev                \* ghost: prev[t], the previous call of thread t: its
                        \* arguments, its result (of a list, the length) and
                        \* the ids that were unread when it took the lock

collector == <<constructed, max_history, request_history, lock, total_requests,
               total_errors, status_code_counts, path_counts, method_counts,
               error_type_counts, endpoint_counts, response_times, start_time>>
tables    == <<status_code_counts, path_counts, method_counts,
               error_type_counts, endpoint_counts>>
locals    == <<pc, args, metrics, tmp, ret>>
ghost     == <<log, done, contended>>
manager   == <<alert_constructed, max_alerts, alerts, alert_lock,
               alert_counter, issued, before, prev>>
vars      == <<collector, now, locals, ghost, manager>>

----------------------------------------------------------------------------
(* Bounds of the model *)

NumWriters == 2     \* threads that call record_request concurrently
MaxCap     == 3     \* largest capacity passed to __init__
MaxRecords == 4     \* record_request calls in the sequential specification
MaxCalls   == 3     \* record_request calls in the concurrent specification
MaxLimit   == 3     \* largest small `limit` passed to get_recent_requests
MaxDays    == 2     \* days covered by the clock of SpecClock
MaxClockRecords == 2    \* record_request calls in SpecClock, add_alert
                        \* calls in SpecAlertClock
MaxFairCalls    == 2    \* record_request calls in SpecFair and SpecAlias
MaxAlerts  == 2     \* largest capacity passed to AlertManager.__init__
MaxAdds    == 3     \* add_alert calls

(* Program constants *)

ResponseTimesMaxlen == 1000     \* deque(maxlen=1000), monitoring.py:50
TopLimit            == 10       \* [:10], monitoring.py:151 and :167
WeeklyTopLimit      == 10       \* [:10], monitoring.py:367

NoThread   == 0
Writers    == 1..NumWriters                 \* callers of record_request
Readers    == {NumWriters + 1}              \* callers of the queries
Threads    == Writers \cup Readers
SeqThreads == {1}                           \* the one caller of SpecSeq
None       == "None"            \* Python's None (for Optional[str] fields)

CapArgs == (0 - 1)..MaxCap
Limits  == (0..MaxLimit) \cup {10}

(* Arguments of record_request.  Requests is the workload of the          *)
(* sequential specification, SmallRequests that of the concurrent one.    *)
Req(p, m, s, d, e, et, ep) ==
    [path |-> p, method |-> m, status_code |-> s, duration |-> d,
     error_occurred |-> e, error_type |-> et, endpoint |-> ep]

Requests ==
    { Req("/a", "GET",  200, 10, FALSE, None,         "ep_a"),
      Req("/a", "POST", 500, 20, TRUE,  "ValueError", "ep_a"),
      Req("/b", "GET",  200, 30, FALSE, None,         None),
      Req("/b", "GET",  404, 40, TRUE,  None,         None),
      Req("/c", "GET",  200, 20, FALSE, "KeyError",   "ep_c") }

SmallRequests ==
    { Req("/a", "POST", 500, 20, TRUE,  "ValueError", "ep_a"),
      Req("/b", "GET",  200, 30, FALSE, None,         None) }

NoArgs    == [op |-> "none"]
NoMetrics == [uid |-> 0]
NoRet     == [kind |-> "none"]
NoCall    == [op |-> "none"]

----------------------------------------------------------------------------
(* Python helpers *)

EmptyDict == [k \in {} |-> 0]

\* Python truthiness of an Optional[str] (None and "" are falsy).
Truthy(x) == x # None /\ x # ""

\* defaultdict(int).__getitem__: a missing key is inserted with 0.
DictTouch(d, k) == IF k \in DOMAIN d THEN d ELSE d @@ (k :> 0)

\* d[k] is read by the load half of `d[k] += 1`.
DictLoad(d, k) == IF k \in DOMAIN d THEN d[k] ELSE 0

\* A store that restarts the count instead of keeping the loaded value.
DictStore_Restart(d, k, v) ==
    IF k \in DOMAIN d THEN [d EXCEPT ![k] = 1] ELSE d @@ (k :> 1)

\* d[k] = v
DictStore(d, k, v) == IF k \in DOMAIN d THEN [d EXCEPT ![k] = v] ELSE d @@ (k :> v)

\* A deque that refuses the new element when it is full.
DequeAppend_DropNewest(d, x, n) ==
    LET a == Append(d, x) IN IF Len(a) > n THEN SubSeq(a, 1, n) ELSE a

\* deque(maxlen=n).append(x): the leftmost element is discarded on overflow.
DequeAppend(d, x, n) ==
    LET a == Append(d, x) IN IF Len(a) > n THEN Tail(a) ELSE a

RECURSIVE SeqSum(_)
SeqSum(s) == IF s = <<>> THEN 0 ELSE Head(s) + SeqSum(Tail(s))

RECURSIVE SumValues(_)
SumValues(d) ==
    IF DOMAIN d = {} THEN 0
    ELSE LET k == CHOOSE x \in DOMAIN d : TRUE
         IN d[k] + SumValues([x \in DOMAIN d \ {k} |-> d[x]])

SeqMin(s) == CHOOSE x \in {s[i] : i \in 1..Len(s)} :
                 \A j \in 1..Len(s) : x <= s[j]
SeqMax(s) == CHOOSE x \in {s[i] : i \in 1..Len(s)} :
                 \A j \in 1..Len(s) : x >= s[j]

\* A sort that was forgotten.
Sorted_Unsorted(s) == s

\* sorted(s): insertion of each element into an ascending sequence.
RECURSIVE Insert(_, _)
Insert(s, x) ==
    IF s = <<>> THEN <<x>>
    ELSE IF x < Head(s) THEN <<x>> \o s
    ELSE <<Head(s)>> \o Insert(Tail(s), x)

RECURSIVE Sorted(_)
Sorted(s) == IF s = <<>> THEN <<>> ELSE Insert(Sorted(Tail(s)), Head(s))

\* s[start:] with Python's treatment of a negative or too large start.
SliceFrom(s, start) ==
    LET n  == Len(s)
        lo == IF start < 0 THEN (IF n + start < 0 THEN 0 ELSE n + start)
              ELSE (IF start > n THEN n ELSE start)
    IN  SubSeq(s, lo + 1, n)

Durations(s) == [i \in 1..Len(s) |-> s[i].duration]

\* x / y, kept exact.
Ratio(x, y) == [num |-> x, den |-> y]
Zero        == Ratio(0, 1)

\* A calendar whose week starts on Sunday.
FromTimestamp_SundayFirst(ts) ==
    [day |-> ts \div 24, hour |-> ts % 24, weekday |-> ((ts \div 24) + 4) % 7]

\* datetime.fromtimestamp(ts) for a timestamp in hours; 1970-01-01 was a
\* Thursday (weekday() = 3, Monday = 0).
FromTimestamp(ts) ==
    [day |-> ts \div 24, hour |-> ts % 24, weekday |-> ((ts \div 24) + 3) % 7]

\* datetime.timestamp(): the hours between the epoch and dt.
Timestamp(dt) == dt.day * 24 + dt.hour

\* datetime.isoformat(): the date and the time of day, as text would carry them.
IsoFormat(dt) == <<dt.day, dt.hour>>

----------------------------------------------------------------------------
(* MonitoringCollector.__init__(max_history = c).  deque(maxlen=c) raises  *)
(* ValueError for a negative c, and accepts every c >= 0.                  *)

MonitoringCollector_init(c) ==
    /\ max_history = c
    /\ constructed = IF c < 0 THEN "ValueError" ELSE "ok"
    /\ request_history = <<>>
    /\ lock = NoThread
    /\ total_requests = 0
    /\ total_errors = 0
    /\ status_code_counts = EmptyDict
    /\ path_counts = EmptyDict
    /\ method_counts = EmptyDict
    /\ error_type_counts = EmptyDict
    /\ endpoint_counts = EmptyDict
    /\ response_times = <<>>
    /\ start_time = now

\* AlertManager.__init__(max_alerts = c), notifications.py:188-197
AlertManager_init(c) ==
    /\ max_alerts = c
    /\ alert_constructed = IF c < 0 THEN "ValueError" ELSE "ok"
    /\ alerts = <<>>
    /\ alert_lock = NoThread
    /\ alert_counter = 0
    /\ issued = <<>>
    /\ before = [t \in Threads |-> <<>>]
    /\ prev = [t \in Threads |-> NoCall]

Init ==
    /\ now = 0
    /\ \E c \in CapArgs : MonitoringCollector_init(c)
    /\ pc = [t \in Threads |-> "idle"]
    /\ args = [t \in Threads |-> NoArgs]
    /\ metrics = [t \in Threads |-> NoMetrics]
    /\ tmp = [t \in Threads |-> 0]
    /\ ret = [t \in Threads |-> NoRet]
    /\ log = <<>>
    /\ done = <<>>
    /\ contended = FALSE
    /\ AlertManager_init(MaxAlerts)

----------------------------------------------------------------------------
(* The lock and the program counter *)

\* A lock that excludes nobody.
LockAvailable_NoMutex == TRUE

\* threading.Lock: `with self._lock` proceeds only when no thread holds it.
LockAvailable == lock = NoThread

\* Thread t moves from `from` to `to`.
Goto(t, from, to) == pc[t] = from /\ pc' = [pc EXCEPT ![t] = to]

\* `with self._lock:` at the head of a method.
Acquire(t, from, to) ==
    /\ Goto(t, from, to)
    /\ LockAvailable
    /\ lock' = t

\* Number of record_request calls started so far.
Started == Len(done) + Cardinality({t \in Threads : args[t].op = "record_request"})

----------------------------------------------------------------------------
(* record_request, monitoring.py:53-101 *)

\* A thread calls record_request(r) and reaches `with self._lock`.
record_request_call(t, R, maxcalls) ==
    /\ constructed = "ok"
    /\ Started < maxcalls
    /\ Goto(t, "idle", "rr_74")
    /\ \E r \in R : args' = [args EXCEPT ![t] =
           [op |-> "record_request", req |-> r]]
    /\ ret' = [ret EXCEPT ![t] = NoRet]
    /\ UNCHANGED <<collector, now, metrics, tmp, ghost, manager>>

\* line 74
rr_74(t) ==
    /\ Acquire(t, "rr_74", "rr_75")
    /\ contended' = (contended \/ \E w \in Threads \ {t} :
                                       args[w].op = "record_request")
    /\ UNCHANGED <<constructed, max_history, request_history, total_requests,
                   total_errors, tables, response_times, start_time,
                   now, args, metrics, tmp, ret, log, done,
                   manager>>

\* lines 75-85: timestamp = time.time(); metrics = RequestMetrics(...)
rr_75(t) ==
    /\ Goto(t, "rr_75", "rr_87")
    /\ metrics' = [metrics EXCEPT ![t] =
           [uid |-> Len(log) + 1, timestamp |-> now] @@ args[t].req]
    /\ UNCHANGED <<collector, now, args, tmp, ret, ghost, manager>>

\* line 87: self._request_history.append(metrics)
rr_87(t) ==
    /\ Goto(t, "rr_87", "rr_90")
    /\ request_history' = DequeAppend(request_history, metrics[t], max_history)
    /\ log' = Append(log, metrics[t])
    /\ UNCHANGED <<constructed, max_history, lock, total_requests, total_errors,
                   tables, response_times, start_time, now, args, metrics,
                   tmp, ret, done, contended,
                   manager>>

\* line 90: self._total_requests += 1
rr_90(t) ==
    /\ Goto(t, "rr_90", "rr_90s")
    /\ tmp' = [tmp EXCEPT ![t] = total_requests]
    /\ UNCHANGED <<collector, now, args, metrics, ret, ghost, manager>>

rr_90s(t) ==
    /\ Goto(t, "rr_90s", "rr_91")
    /\ total_requests' = tmp[t] + 1
    /\ UNCHANGED <<constructed, max_history, request_history, lock, total_errors,
                   tables, response_times, start_time, now, args, metrics,
                   tmp, ret, ghost,
                   manager>>

\* line 91: self._status_code_counts[status_code] += 1
rr_91(t) ==
    /\ Goto(t, "rr_91", "rr_91s")
    /\ tmp' = [tmp EXCEPT ![t] = DictLoad(status_code_counts, args[t].req.status_code)]
    /\ status_code_counts' = DictTouch(status_code_counts, args[t].req.status_code)
    /\ UNCHANGED <<constructed, max_history, request_history, lock, total_requests,
                   total_errors, path_counts, method_counts, error_type_counts,
                   endpoint_counts, response_times, start_time, now, args,
                   metrics, ret, ghost,
                   manager>>

rr_91s(t) ==
    /\ Goto(t, "rr_91s", "rr_92")
    /\ status_code_counts' =
           DictStore(status_code_counts, args[t].req.status_code, tmp[t] + 1)
    /\ UNCHANGED <<constructed, max_history, request_history, lock, total_requests,
                   total_errors, path_counts, method_counts, error_type_counts,
                   endpoint_counts, response_times, start_time, now, args,
                   metrics, tmp, ret, ghost,
                   manager>>

\* line 92: self._path_counts[path] += 1
rr_92(t) ==
    /\ Goto(t, "rr_92", "rr_92s")
    /\ tmp' = [tmp EXCEPT ![t] = DictLoad(path_counts, args[t].req.path)]
    /\ path_counts' = DictTouch(path_counts, args[t].req.path)
    /\ UNCHANGED <<constructed, max_history, request_history, lock, total_requests,
                   total_errors, status_code_counts, method_counts,
                   error_type_counts, endpoint_counts, response_times,
                   start_time, now, args, metrics, ret, ghost,
                   manager>>

rr_92s(t) ==
    /\ Goto(t, "rr_92s", "rr_93")
    /\ path_counts' = DictStore(path_counts, args[t].req.path, tmp[t] + 1)
    /\ UNCHANGED <<constructed, max_history, request_history, lock, total_requests,
                   total_errors, status_code_counts, method_counts,
                   error_type_counts, endpoint_counts, response_times,
                   start_time, now, args, metrics, tmp, ret, ghost,
                   manager>>

\* line 93: self._method_counts[method] += 1
rr_93(t) ==
    /\ Goto(t, "rr_93", "rr_93s")
    /\ tmp' = [tmp EXCEPT ![t] = DictLoad(method_counts, args[t].req.method)]
    /\ method_counts' = DictTouch(method_counts, args[t].req.method)
    /\ UNCHANGED <<constructed, max_history, request_history, lock, total_requests,
                   total_errors, status_code_counts, path_counts,
                   error_type_counts, endpoint_counts, response_times,
                   start_time, now, args, metrics, ret, ghost,
                   manager>>

rr_93s(t) ==
    /\ Goto(t, "rr_93s", "rr_94")
    /\ method_counts' = DictStore(method_counts, args[t].req.method, tmp[t] + 1)
    /\ UNCHANGED <<constructed, max_history, request_history, lock, total_requests,
                   total_errors, status_code_counts, path_counts,
                   error_type_counts, endpoint_counts, response_times,
                   start_time, now, args, metrics, tmp, ret, ghost,
                   manager>>

\* lines 94-95: if endpoint: self._endpoint_counts[endpoint] += 1
rr_94(t) ==
    /\ pc[t] = "rr_94"
    /\ IF Truthy(args[t].req.endpoint)
       THEN /\ pc' = [pc EXCEPT ![t] = "rr_95s"]
            /\ tmp' = [tmp EXCEPT ![t] = DictLoad(endpoint_counts, args[t].req.endpoint)]
            /\ endpoint_counts' = DictTouch(endpoint_counts, args[t].req.endpoint)
       ELSE /\ pc' = [pc EXCEPT ![t] = "rr_96"]
            /\ UNCHANGED <<tmp, endpoint_counts, manager>>
    /\ UNCHANGED <<constructed, max_history, request_history, lock, total_requests,
                   total_errors, status_code_counts, path_counts, method_counts,
                   error_type_counts, response_times, start_time, now, args,
                   metrics, ret, ghost,
                   manager>>

rr_95s(t) ==
    /\ Goto(t, "rr_95s", "rr_96")
    /\ endpoint_counts' = DictStore(endpoint_counts, args[t].req.endpoint, tmp[t] + 1)
    /\ UNCHANGED <<constructed, max_history, request_history, lock, total_requests,
                   total_errors, status_code_counts, path_counts, method_counts,
                   error_type_counts, response_times, start_time, now, args,
                   metrics, tmp, ret, ghost,
                   manager>>

\* line 96: self._response_times.append(duration)
rr_96(t) ==
    /\ Goto(t, "rr_96", "rr_98")
    /\ response_times' =
           DequeAppend(response_times, args[t].req.duration, ResponseTimesMaxlen)
    /\ UNCHANGED <<constructed, max_history, request_history, lock, total_requests,
                   total_errors, tables, start_time, now, args, metrics, tmp,
                   ret, ghost,
                   manager>>

\* lines 98-99: if error_occurred: self._total_errors += 1
rr_98(t) ==
    /\ pc[t] = "rr_98"
    /\ IF args[t].req.error_occurred
       THEN /\ pc' = [pc EXCEPT ![t] = "rr_99s"]
            /\ tmp' = [tmp EXCEPT ![t] = total_errors]
       ELSE /\ pc' = [pc EXCEPT ![t] = "rr_exit"]
            /\ UNCHANGED tmp
    /\ UNCHANGED <<collector, now, args, metrics, ret, ghost, manager>>

rr_99s(t) ==
    /\ Goto(t, "rr_99s", "rr_100")
    /\ total_errors' = tmp[t] + 1
    /\ UNCHANGED <<constructed, max_history, request_history, lock, total_requests,
                   tables, response_times, start_time, now, args, metrics,
                   tmp, ret, ghost,
                   manager>>

\* lines 100-101: if error_type: self._error_type_counts[error_type] += 1
rr_100(t) ==
    /\ pc[t] = "rr_100"
    /\ IF Truthy(args[t].req.error_type)
       THEN /\ pc' = [pc EXCEPT ![t] = "rr_101s"]
            /\ tmp' = [tmp EXCEPT ![t] = DictLoad(error_type_counts, args[t].req.error_type)]
            /\ error_type_counts' = DictTouch(error_type_counts, args[t].req.error_type)
       ELSE /\ pc' = [pc EXCEPT ![t] = "rr_exit"]
            /\ UNCHANGED <<tmp, error_type_counts, manager>>
    /\ UNCHANGED <<constructed, max_history, request_history, lock, total_requests,
                   total_errors, status_code_counts, path_counts, method_counts,
                   endpoint_counts, response_times, start_time, now, args,
                   metrics, ret, ghost,
                   manager>>

rr_101s(t) ==
    /\ Goto(t, "rr_101s", "rr_exit")
    /\ error_type_counts' =
           DictStore(error_type_counts, args[t].req.error_type, tmp[t] + 1)
    /\ UNCHANGED <<constructed, max_history, request_history, lock, total_requests,
                   total_errors, status_code_counts, path_counts, method_counts,
                   endpoint_counts, response_times, start_time, now, args,
                   metrics, tmp, ret, ghost,
                   manager>>

\* end of the `with` block: the lock is released and the call returns None.
rr_exit(t) ==
    /\ Goto(t, "rr_exit", "idle")
    /\ lock' = NoThread
    /\ done' = Append(done, [uid |-> metrics[t].uid] @@ args[t].req)
    /\ args' = [args EXCEPT ![t] = NoArgs]
    /\ metrics' = [metrics EXCEPT ![t] = NoMetrics]
    /\ tmp' = [tmp EXCEPT ![t] = 0]
    /\ UNCHANGED <<constructed, max_history, request_history, total_requests,
                   total_errors, tables, response_times, start_time, now, ret,
                   log, contended,
                   manager>>

record_request(t) ==
    \/ rr_74(t) \/ rr_75(t) \/ rr_87(t) \/ rr_90(t) \/ rr_90s(t)
    \/ rr_91(t) \/ rr_91s(t) \/ rr_92(t) \/ rr_92s(t) \/ rr_93(t) \/ rr_93s(t)
    \/ rr_94(t) \/ rr_95s(t) \/ rr_96(t) \/ rr_98(t) \/ rr_99s(t)
    \/ rr_100(t) \/ rr_101s(t) \/ rr_exit(t)

----------------------------------------------------------------------------
(* Queries.  A call waits at its `with self._lock`, runs its body while   *)
(* holding the lock, releases it on return and hands the result to its    *)
(* caller in ret[t]; the caller then goes back to "idle".                 *)

Value(v)   == [kind |-> "value", value |-> v]
Raise(exc) == [kind |-> "raise", exc |-> exc]

\* A thread calls the query `op` and reaches its `with self._lock`.
Call(t, op, a, at) ==
    /\ constructed = "ok"
    /\ Goto(t, "idle", at)
    /\ args' = [args EXCEPT ![t] = [op |-> op] @@ a]
    /\ ret' = [ret EXCEPT ![t] = NoRet]
    /\ UNCHANGED <<collector, now, metrics, tmp, ghost, manager>>

\* `with self._lock:` of a query.
Enter(t, from, to) ==
    /\ Acquire(t, from, to)
    /\ UNCHANGED <<constructed, max_history, request_history, total_requests,
                   total_errors, tables, response_times, start_time,
                   now, args, metrics, tmp, ret, ghost,
                   manager>>

\* `return v` (or an exception) inside the `with` block: the lock is released.
Return(t, from, r) ==
    /\ Goto(t, from, "returned")
    /\ lock' = NoThread
    /\ ret' = [ret EXCEPT ![t] = r]
    /\ UNCHANGED <<constructed, max_history, request_history, total_requests,
                   total_errors, tables, response_times, start_time,
                   now, args, metrics, tmp, ghost,
                   manager>>

\* The caller is done with the result.
Resume(t) ==
    /\ Goto(t, "returned", "idle")
    /\ args' = [args EXCEPT ![t] = NoArgs]
    /\ ret' = [ret EXCEPT ![t] = NoRet]
    /\ UNCHANGED <<collector, now, metrics, tmp, ghost, manager>>

----------------------------------------------------------------------------
(* get_statistics, monitoring.py:103-170 *)

\* An index rounded up instead of truncated.
PctIndex_RoundUp(n, pnum) == (n * pnum + 99) \div 100

\* int(n * p) for p = pnum / 100 (lines 144-146).
PctIndex(n, pnum) == (n * pnum) \div 100

\* Durations taken from the lifetime deque instead of the retained samples.
RecentDurations_Lifetime == response_times

\* [m.duration for m in recent_requests], recent_requests being
\* list(self._request_history) (lines 111, 127, 141, 161, 162).
RecentDurations == Durations(request_history)

\* sorted(d.items(), key=lambda x: x[1], reverse=True)[:n] as a dict: n keys
\* of the greatest counts (all of them when there are at most n).
TopItems(d, n) ==
    IF Cardinality(DOMAIN d) <= n THEN d
    ELSE LET S == CHOOSE X \in SUBSET DOMAIN d :
                      /\ Cardinality(X) = n
                      /\ \A a \in X, b \in (DOMAIN d) \ X : d[a] >= d[b]
         IN  [k \in S |-> d[k]]

\* Number of samples of s whose `field` is k.
CountIn(s, field, k) == Cardinality({i \in 1..Len(s) : s[i][field] = k})

\* Top paths counted over the retained samples only.
TopPaths_Retained ==
    TopItems([k \in {request_history[i].path : i \in 1..Len(request_history)}
                 |-> CountIn(request_history, "path", k)], TopLimit)

\* lines 150-152: top_paths, from the lifetime table self._path_counts
TopPaths == TopItems(path_counts, TopLimit)

\* line 167: top_endpoints, from the lifetime table self._endpoint_counts
TopEndpoints == TopItems(endpoint_counts, TopLimit)

\* lines 114-124: the result for an empty history
EmptyStatistics(uptime) ==
    [uptime_seconds           |-> uptime,
     total_requests           |-> 0,
     requests_per_second      |-> Zero,
     error_rate               |-> Zero,
     average_response_time_ms |-> Zero,
     status_codes             |-> EmptyDict,
     top_paths                |-> EmptyDict,
     top_methods              |-> EmptyDict,
     error_types              |-> EmptyDict]

\* lines 110-170: the body of get_statistics, evaluated on the current state.
\* sorted_times[i] raises IndexError when i is not below n.
Statistics ==
    LET uptime == now - start_time
        recent == request_history
        times  == RecentDurations
        n      == Len(times)
        sorted_times == Sorted(times)
        i50    == PctIndex(n, 50)
        i95    == PctIndex(n, 95)
        i99    == PctIndex(n, 99)
    IN  IF recent = <<>> THEN Value(EmptyStatistics(uptime))
        ELSE IF i50 >= n \/ i95 >= n \/ i99 >= n THEN Raise("IndexError")
        ELSE Value(
            [uptime_seconds           |-> uptime,
             total_requests           |-> total_requests,
             total_errors             |-> total_errors,
             requests_per_second      |->
                 IF uptime > 0 THEN Ratio(total_requests, uptime) ELSE Zero,
             error_rate               |->
                 IF total_requests > 0 THEN Ratio(total_errors, total_requests)
                 ELSE Zero,
             average_response_time_ms |-> Ratio(SeqSum(times), Len(recent)),
             min_response_time_ms     |-> SeqMin(times),
             max_response_time_ms     |-> SeqMax(times),
             response_time_percentiles |->
                 [p50 |-> sorted_times[i50 + 1],
                  p95 |-> sorted_times[i95 + 1],
                  p99 |-> sorted_times[i99 + 1]],
             status_codes             |-> status_code_counts,
             top_paths                |-> TopPaths,
             top_methods              |-> method_counts,
             top_endpoints            |-> TopEndpoints,
             error_types              |-> error_type_counts,
             recent_request_count     |-> Len(recent)])

get_statistics_call(t) == Call(t, "get_statistics", [limit |-> 0], "gs_109")

\* line 109
gs_109(t) == Enter(t, "gs_109", "gs_110")

\* lines 110-170
gs_110(t) == Return(t, "gs_110", Statistics)

get_statistics(t) == gs_109(t) \/ gs_110(t)

----------------------------------------------------------------------------
(* get_recent_requests, monitoring.py:172-196 *)

\* lines 184-194: the dict made of one RequestMetrics (uid is ghost).
RequestView(m) ==
    [timestamp      |-> m.timestamp,
     datetime       |-> IsoFormat(FromTimestamp(m.timestamp)),
     path           |-> m.path,
     method         |-> m.method,
     status_code    |-> m.status_code,
     duration_ms    |-> m.duration,
     error_occurred |-> m.error_occurred,
     error_type     |-> m.error_type,
     endpoint       |-> m.endpoint,
     uid            |-> m.uid]

\* lines 182-196: list(self._request_history)[-limit:], each as a dict.
RecentRequests(limit) ==
    LET recent == SliceFrom(request_history, 0 - limit)
    IN  [i \in 1..Len(recent) |-> RequestView(recent[i])]

get_recent_requests_call(t, L) ==
    \E l \in L : Call(t, "get_recent_requests", [limit |-> l], "grr_181")

\* line 181
grr_181(t) == Enter(t, "grr_181", "grr_182")

\* lines 182-196
grr_182(t) == Return(t, "grr_182", Value(RecentRequests(args[t].limit)))

get_recent_requests(t) == grr_181(t) \/ grr_182(t)

----------------------------------------------------------------------------
(* get_endpoint_stats, monitoring.py:241-275 *)

\* A grouping that falls back on the path of a sample without endpoint.
EndpointKey_OrPath(m) == IF Truthy(m.endpoint) THEN m.endpoint ELSE m.path

\* lines 251-252: the group a sample is appended to; None when it is skipped.
EndpointKey(m) == IF Truthy(m.endpoint) THEN m.endpoint ELSE None

\* lines 259-273: the statistics of one group of samples.
GroupStats(ms) ==
    LET durations   == Durations(ms)
        error_count == Cardinality({i \in 1..Len(ms) : ms[i].error_occurred})
    IN  [request_count            |-> Len(ms),
         average_response_time_ms |-> Ratio(SeqSum(durations), Len(durations)),
         min_response_time_ms     |-> SeqMin(durations),
         max_response_time_ms     |-> SeqMax(durations),
         error_count              |-> error_count,
         error_rate               |->
             IF Len(ms) > 0 THEN Ratio(error_count, Len(ms)) ELSE Zero,
         status_codes             |->
             [code \in {ms[i].status_code : i \in 1..Len(ms)}
                 |-> CountIn(ms, "status_code", code)]]

\* lines 248-275: the body of get_endpoint_stats.
EndpointStats ==
    LET keys == {EndpointKey(request_history[i]) :
                     i \in 1..Len(request_history)} \ {None}
    IN  [e \in keys |->
            LET InGroup(m) == EndpointKey(m) = e
            IN  GroupStats(SelectSeq(request_history, InGroup))]

get_endpoint_stats_call(t) == Call(t, "get_endpoint_stats", [limit |-> 0], "ges_247")

\* line 247
ges_247(t) == Enter(t, "ges_247", "ges_248")

\* lines 248-275
ges_248(t) == Return(t, "ges_248", Value(EndpointStats))

get_endpoint_stats(t) == ges_247(t) \/ ges_248(t)

----------------------------------------------------------------------------
(* The clock, time.time(), in hours since the epoch *)

\* A Monday, 00:00 (day 0 of the epoch is a Thursday).
ClockStart == 4 * 24

ClockHours == {0, 23}

\* The instants at which the clock is read.
Instants == {ClockStart + 24 * d + h : d \in 0..(MaxDays - 1), h \in ClockHours}

\* Time passes between two calls.  A call reads the clock at most once, so
\* time passing during a call is time passing before or after it.
Tick ==
    /\ \A t \in Threads : pc[t] = "idle"
    /\ \E i \in Instants : i > now /\ now' = i
    /\ UNCHANGED <<collector, locals, ghost, manager>>

----------------------------------------------------------------------------
(* get_error_rate, monitoring.py:198-218 *)

Windows == {0, 1, 24}

\* A window that leaves out the sample stamped at the cutoff.
InWindow_Strict(m, cutoff_time) == m.timestamp > cutoff_time

\* line 211
InWindow(m, cutoff_time) == m.timestamp >= cutoff_time

\* lines 208-218: the body of get_error_rate.
ErrorRate(time_window) ==
    LET cutoff_time == now - time_window
        Recent(m)   == InWindow(m, cutoff_time)
        recent_requests == SelectSeq(request_history, Recent)
        error_count == Cardinality({i \in 1..Len(recent_requests) :
                                       recent_requests[i].error_occurred})
    IN  IF Len(recent_requests) = 0 THEN Zero
        ELSE Ratio(error_count, Len(recent_requests))

get_error_rate_call(t, W) ==
    \E w \in W : Call(t, "get_error_rate", [time_window |-> w], "ger_207")

\* line 207
ger_207(t) == Enter(t, "ger_207", "ger_208")

\* A body that reads self._status_code_counts[500]: the defaultdict inserts
\* the key when it is missing.
ger_208_ReadsTable(t) ==
    /\ Goto(t, "ger_208", "returned")
    /\ lock' = NoThread
    /\ ret' = [ret EXCEPT ![t] = Value(ErrorRate(args[t].time_window))]
    /\ status_code_counts' = DictTouch(status_code_counts, 500)
    /\ UNCHANGED <<constructed, max_history, request_history, total_requests,
                   total_errors, path_counts, method_counts,
                   error_type_counts, endpoint_counts, response_times,
                   start_time, now, args, metrics, tmp, ghost, manager>>

\* lines 208-218
ger_208(t) == Return(t, "ger_208", Value(ErrorRate(args[t].time_window)))

get_error_rate(t) == ger_207(t) \/ ger_208(t)

----------------------------------------------------------------------------
(* get_average_response_time, monitoring.py:220-239 *)

\* lines 230-239: the body of get_average_response_time.
AverageResponseTime(time_window) ==
    LET cutoff_time == now - time_window
        Recent(m)   == InWindow(m, cutoff_time)
        recent_requests == SelectSeq(request_history, Recent)
    IN  IF Len(recent_requests) = 0 THEN Zero
        ELSE Ratio(SeqSum(Durations(recent_requests)), Len(recent_requests))

get_average_response_time_call(t, W) ==
    \E w \in W :
        Call(t, "get_average_response_time", [time_window |-> w], "gart_229")

\* line 229
gart_229(t) == Enter(t, "gart_229", "gart_230")

\* lines 230-239
gart_230(t) ==
    Return(t, "gart_230", Value(AverageResponseTime(args[t].time_window)))

get_average_response_time(t) == gart_229(t) \/ gart_230(t)

----------------------------------------------------------------------------
(* get_requests_by_date_range, monitoring.py:277-298 *)

\* The (start_date, end_date) arguments with both ends in the set I.
DateRanges(I) ==
    {[start_date |-> FromTimestamp(a), end_date |-> FromTimestamp(b)] :
         a \in I, b \in I}

\* A range that leaves out the sample stamped at its end.
InRange_EndExclusive(m, start_timestamp, end_timestamp) ==
    start_timestamp <= m.timestamp /\ m.timestamp < end_timestamp

\* line 297
InRange(m, start_timestamp, end_timestamp) ==
    start_timestamp <= m.timestamp /\ m.timestamp <= end_timestamp

\* lines 292-298: the body of get_requests_by_date_range.
RequestsByDateRange(start_date, end_date) ==
    LET start_timestamp == Timestamp(start_date)
        end_timestamp   == Timestamp(end_date)
        Matches(metric) == InRange(metric, start_timestamp, end_timestamp)
    IN  SelectSeq(request_history, Matches)

get_requests_by_date_range_call(t, D) ==
    \E d \in D : Call(t, "get_requests_by_date_range", d, "grd_291")

\* line 291
grd_291(t) == Enter(t, "grd_291", "grd_292")

\* lines 292-298
grd_292(t) ==
    Return(t, "grd_292",
           Value(RequestsByDateRange(args[t].start_date, args[t].end_date)))

get_requests_by_date_range(t) == grd_291(t) \/ grd_292(t)

----------------------------------------------------------------------------
(* get_weekly_statistics, monitoring.py:300-422 *)

\* A default that lacks the two calendar distributions.
DefaultWeekly_Partial(start_date, end_date) ==
    [start_date               |-> IsoFormat(start_date),
     end_date                 |-> IsoFormat(end_date),
     total_requests           |-> 0,
     total_errors             |-> 0,
     error_rate               |-> Zero,
     avg_response_time        |-> Zero,
     top_endpoints            |-> <<>>,
     error_breakdown          |-> EmptyDict,
     status_code_distribution |-> EmptyDict]

\* lines 319-331 (and, the same dict, lines 411-422)
DefaultWeekly(start_date, end_date) ==
    [start_date               |-> IsoFormat(start_date),
     end_date                 |-> IsoFormat(end_date),
     total_requests           |-> 0,
     total_errors             |-> 0,
     error_rate               |-> Zero,
     avg_response_time        |-> Zero,
     top_endpoints            |-> <<>>,
     error_breakdown          |-> EmptyDict,
     status_code_distribution |-> EmptyDict,
     hourly_distribution      |-> EmptyDict,
     daily_distribution       |-> EmptyDict]

\* A grouping that never falls back on the path.
WeeklyKey_EndpointOnly(req) == req.endpoint

\* line 347: endpoint = req.endpoint or req.path
WeeklyKey(req) == IF Truthy(req.endpoint) THEN req.endpoint ELSE req.path

\* lines 346-351: the keys of endpoint_stats, in the order of insertion.
RECURSIVE EndpointStatsKeys(_)
EndpointStatsKeys(requests) ==
    IF requests = <<>> THEN <<>>
    ELSE LET front == EndpointStatsKeys(SubSeq(requests, 1, Len(requests) - 1))
             k     == WeeklyKey(requests[Len(requests)])
         IN  IF \E i \in 1..Len(front) : front[i] = k THEN front
             ELSE Append(front, k)

\* lines 356-362: the entry of top_endpoints for the key `endpoint`.
EndpointEntry(requests, endpoint) ==
    LET InGroup(req) == WeeklyKey(req) = endpoint
        group  == SelectSeq(requests, InGroup)
        count  == Len(group)
        errors == Cardinality({i \in 1..Len(group) : group[i].error_occurred})
        total_duration == SeqSum(Durations(group))
    IN  [endpoint     |-> endpoint,
         count        |-> count,
         error_count  |-> errors,
         error_rate   |-> IF count > 0 THEN Ratio(errors, count) ELSE Zero,
         avg_duration |-> IF count > 0 THEN Ratio(total_duration, count)
                          ELSE Zero]

\* lines 354-366: sorted(..., key=count, reverse=True), a stable sort.
RECURSIVE InsertByCount(_, _)
InsertByCount(s, x) ==
    IF s = <<>> THEN <<x>>
    ELSE IF Head(s).count < x.count THEN <<x>> \o s
    ELSE <<Head(s)>> \o InsertByCount(Tail(s), x)

RECURSIVE SortedByCount(_)
SortedByCount(s) ==
    IF s = <<>> THEN <<>>
    ELSE InsertByCount(SortedByCount(SubSeq(s, 1, Len(s) - 1)), s[Len(s)])

\* lines 354-367
WeeklyTopEndpoints(requests) ==
    LET keys    == EndpointStatsKeys(requests)
        entries == [i \in 1..Len(keys) |-> EndpointEntry(requests, keys[i])]
        ordered == SortedByCount(entries)
    IN  SubSeq(ordered, 1, IF Len(ordered) < WeeklyTopLimit THEN Len(ordered)
                           ELSE WeeklyTopLimit)

\* A breakdown that counts every sample carrying an error type.
Classified_AnyKind(req) == Truthy(req.error_type)

\* line 372
Classified(req) == req.error_occurred /\ Truthy(req.error_type)

\* lines 370-373
ErrorBreakdown(requests) ==
    LET errors == SelectSeq(requests, Classified)
    IN  [k \in {errors[i].error_type : i \in 1..Len(errors)}
            |-> CountIn(errors, "error_type", k)]

\* The histogram of a sequence of values, as a defaultdict(int) builds it.
Histogram(values) ==
    [k \in {values[i] : i \in 1..Len(values)}
        |-> Cardinality({i \in 1..Len(values) : values[i] = k})]

\* lines 376-378
StatusCodeDistribution(requests) ==
    Histogram([i \in 1..Len(requests) |-> requests[i].status_code])

\* lines 381-384
HourlyDistribution(requests) ==
    Histogram([i \in 1..Len(requests)
                  |-> FromTimestamp(requests[i].timestamp).hour])

\* lines 387-390
DailyDistribution(requests) ==
    Histogram([i \in 1..Len(requests)
                  |-> FromTimestamp(requests[i].timestamp).weekday])

\* lines 318-404: what get_weekly_statistics makes of the matched requests.
\* Nothing in the try block raises for datetimes in the range of
\* timestamps, so the handler of lines 405-422 is not entered.
WeeklyStatistics(start_date, end_date, requests) ==
    IF requests = <<>> THEN DefaultWeekly(start_date, end_date)
    ELSE
      LET n_requests == Len(requests)   \* the local total_requests
          n_errors   ==                 \* the local total_errors
              Cardinality({i \in 1..Len(requests) : requests[i].error_occurred})
      IN  [start_date               |-> IsoFormat(start_date),
           end_date                 |-> IsoFormat(end_date),
           total_requests           |-> n_requests,
           total_errors             |-> n_errors,
           error_rate               |-> Ratio(n_errors, n_requests),
           avg_response_time        |->
               Ratio(SeqSum(Durations(requests)), n_requests),
           top_endpoints            |-> WeeklyTopEndpoints(requests),
           error_breakdown          |-> ErrorBreakdown(requests),
           status_code_distribution |-> StatusCodeDistribution(requests),
           hourly_distribution      |-> HourlyDistribution(requests),
           daily_distribution       |-> DailyDistribution(requests)]

get_weekly_statistics_call(t, D) ==
    \E d \in D : Call(t, "get_weekly_statistics", d, "gws_316")

\* A rollup that takes the lock itself before it calls the range query.
gws_316_Reentrant(t) == Enter(t, "gws_316", "gws_316")

\* line 316 calls get_requests_by_date_range, which waits at its line 291
gws_316(t) == Enter(t, "gws_316", "gws_292")

\* lines 292-298 of the nested call: it releases the lock and its value
\* becomes the local `requests`, kept in ret[t] until the method returns.
gws_292(t) ==
    /\ Goto(t, "gws_292", "gws_318")
    /\ lock' = NoThread
    /\ ret' = [ret EXCEPT ![t] =
           [kind |-> "local",
            requests |-> RequestsByDateRange(args[t].start_date,
                                             args[t].end_date)]]
    /\ UNCHANGED <<constructed, max_history, request_history, total_requests,
                   total_errors, tables, response_times, start_time,
                   now, args, metrics, tmp, ghost,
                   manager>>

\* lines 318-404, without the lock
gws_318(t) ==
    /\ Goto(t, "gws_318", "returned")
    /\ ret' = [ret EXCEPT ![t] =
           Value(WeeklyStatistics(args[t].start_date, args[t].end_date,
                                  ret[t].requests))]
    /\ UNCHANGED <<collector, now, args, metrics, tmp, ghost, manager>>

get_weekly_statistics(t) == gws_316(t) \/ gws_292(t) \/ gws_318(t)

\* With the clock at 0: a range that holds every sample and one whose start
\* is later than its end.
SeqRanges == {d \in DateRanges({0, 1}) : d.end_date = FromTimestamp(0)}

----------------------------------------------------------------------------
(* What a caller does to a value it was handed.  RequestMetrics is a       *)
(* mutable dataclass (monitoring.py:14-24); an object is known by its uid, *)
(* and an assignment to a field of an object is seen through every         *)
(* reference to it.                                                        *)

\* `sample.duration = d` for the object u, as seen through the references
\* held in the sequence `samples`.
SetDuration(samples, u, d) ==
    [i \in 1..Len(samples) |->
        IF samples[i].uid = u THEN [samples[i] EXCEPT !.duration = d]
        ELSE samples[i]]

\* The elements of the list returned by get_requests_by_date_range are the
\* objects of self._request_history (lines 295-298): the caller sets
\* `result[j].duration = 0`.
caller_edits_sample(t) ==
    /\ pc[t] = "returned"
    /\ args[t].op = "get_requests_by_date_range"
    /\ ret[t].kind = "value"
    /\ \E j \in 1..Len(ret[t].value) :
           /\ ret[t].value[j].duration # 0
           /\ request_history' =
                  SetDuration(request_history, ret[t].value[j].uid, 0)
           /\ ret' = [ret EXCEPT ![t] =
                  Value([i \in 1..Len(ret[t].value) |->
                      IF i = j THEN [ret[t].value[i] EXCEPT !.duration = 0]
                      ELSE ret[t].value[i]])]
    /\ UNCHANGED <<constructed, max_history, lock, total_requests,
                   total_errors, tables, response_times, start_time,
                   now, pc, args, metrics, tmp, ghost,
                   manager>>

\* The dicts returned by get_recent_requests are built by the call (lines
\* 183-196): the caller sets `result[0]["duration_ms"] = 0`.
caller_edits_view(t) ==
    /\ pc[t] = "returned"
    /\ args[t].op = "get_recent_requests"
    /\ ret[t].kind = "value"
    /\ Len(ret[t].value) > 0
    /\ ret[t].value[1].duration_ms # 0
    /\ ret' = [ret EXCEPT ![t] =
           Value([ret[t].value EXCEPT ![1].duration_ms = 0])]
    /\ UNCHANGED <<collector, now, pc, args, metrics, tmp, ghost, manager>>

\* status_codes of get_statistics is dict(self._status_code_counts) (line
\* 164): the caller runs `result["status_codes"].clear()`.
caller_clears_status_codes(t) ==
    /\ pc[t] = "returned"
    /\ args[t].op = "get_statistics"
    /\ ret[t].kind = "value"
    /\ ret[t].value.status_codes # EmptyDict
    /\ ret' = [ret EXCEPT ![t] =
           Value([ret[t].value EXCEPT !.status_codes = EmptyDict])]
    /\ UNCHANGED <<collector, now, pc, args, metrics, tmp, ghost, manager>>

caller_edits(t) ==
    \/ caller_edits_sample(t)
    \/ caller_edits_view(t)
    \/ caller_clears_status_codes(t)

----------------------------------------------------------------------------
(* AlertManager, notifications.py:185-303.  Its calls use the same thread  *)
(* state (pc, args, tmp, ret) and its own lock.                            *)

\* A lock that excludes nobody.
AlertLockAvailable_NoMutex == TRUE

\* threading.Lock of AlertManager
AlertLockAvailable == alert_lock = NoThread

\* What the collector keeps and its ghosts, left alone by AlertManager.
elsewhere == <<collector, now, metrics, ghost>>

\* A thread calls the AlertManager method `op`.
AlertCall(t, op, a, at) ==
    /\ alert_constructed = "ok"
    /\ Goto(t, "idle", at)
    /\ args' = [args EXCEPT ![t] = [op |-> op] @@ a]
    /\ ret' = [ret EXCEPT ![t] = NoRet]
    /\ UNCHANGED <<elsewhere, tmp, manager>>

\* `with self._lock:` of an AlertManager method.
AlertEnter(t, from, to) ==
    /\ Goto(t, from, to)
    /\ AlertLockAvailable
    /\ alert_lock' = t
    /\ before' = [before EXCEPT ![t] = alerts]
    /\ UNCHANGED <<elsewhere, args, tmp, ret, alert_constructed, max_alerts,
                   alerts, alert_counter, issued, prev>>

\* `return v` inside the `with` block of a method that changes the ledger
\* to `ledger`: the lock is released.
AlertReturn(t, from, ledger, v) ==
    /\ Goto(t, from, "returned")
    /\ alert_lock' = NoThread
    /\ alerts' = ledger
    /\ ret' = [ret EXCEPT ![t] = Value(v)]
    /\ UNCHANGED <<elsewhere, args, tmp, alert_constructed, max_alerts,
                   alert_counter, issued, before, prev>>

\* The caller is done with the result; the call becomes its previous call.
AlertResume(t) ==
    /\ Goto(t, "returned", "idle")
    /\ prev' = [prev EXCEPT ![t] =
           [op     |-> args[t].op,
            args   |-> args[t],
            result |-> IF args[t].op = "get_recent_alerts"
                       THEN Len(ret[t].value) ELSE ret[t].value,
            unread |-> {before[t][i].id : i \in
                           {j \in 1..Len(before[t]) : ~before[t][j].read}}]]
    /\ before' = [before EXCEPT ![t] = <<>>]
    /\ args' = [args EXCEPT ![t] = NoArgs]
    /\ ret' = [ret EXCEPT ![t] = NoRet]
    /\ UNCHANGED <<elsewhere, tmp, alert_constructed, max_alerts, alerts,
                   alert_lock, alert_counter, issued>>

(* add_alert, notifications.py:199-232 *)

\* An Optional[Dict] argument: None, or a dict.
NoDict     == [given |-> FALSE]
Given(d)   == [given |-> TRUE, dict |-> d]

\* `d or {}`
OrEmpty(d) == IF d.given THEN d.dict ELSE EmptyDict

AlertInputs ==
    {[alert_type |-> "error", title |-> "t", message |-> "m",
      details |-> NoDict],
     [alert_type |-> "info", title |-> "t", message |-> "m",
      details |-> Given([path |-> "/a"])]}

\* line 219: f"alert_{int(time.time())}_{self._alert_counter}"
AlertId(time, counter) == <<"alert", time, counter>>

\* Number of add_alert calls started so far.
AddsStarted ==
    Len(issued) + Cardinality({t \in Threads :
        args[t].op = "add_alert" /\ pc[t] \in {"aa_217", "aa_218", "aa_218s",
                                               "aa_219"}})

add_alert_call(t, A, maxadds) ==
    /\ AddsStarted < maxadds
    /\ \E a \in A : AlertCall(t, "add_alert", a, "aa_217")

\* line 217
aa_217(t) == AlertEnter(t, "aa_217", "aa_218")

\* line 218: the load of self._alert_counter += 1
aa_218(t) ==
    /\ Goto(t, "aa_218", "aa_218s")
    /\ tmp' = [tmp EXCEPT ![t] = alert_counter]
    /\ UNCHANGED <<elsewhere, args, ret, manager>>

\* line 218: the store of self._alert_counter += 1
aa_218s(t) ==
    /\ Goto(t, "aa_218s", "aa_219")
    /\ alert_counter' = tmp[t] + 1
    /\ tmp' = [tmp EXCEPT ![t] = 0]
    /\ UNCHANGED <<elsewhere, args, ret, alert_constructed, max_alerts,
                   alerts, alert_lock, issued, before, prev>>

\* line 219: the local alert_id
aa_219(t) ==
    /\ Goto(t, "aa_219", "aa_221")
    /\ ret' = [ret EXCEPT ![t] =
           [kind |-> "local", alert_id |-> AlertId(now, alert_counter)]]
    /\ issued' = Append(issued, AlertId(now, alert_counter))
    /\ UNCHANGED <<elsewhere, args, tmp, alert_constructed, max_alerts,
                   alerts, alert_lock, alert_counter, before, prev>>

\* lines 221-229: alert = Alert(...)
NewAlert(alert_id, a) ==
    [id         |-> alert_id,
     timestamp  |-> now,
     alert_type |-> a.alert_type,
     title      |-> a.title,
     message    |-> a.message,
     details    |-> OrEmpty(a.details),
     read       |-> FALSE]

\* lines 221-231: self._alerts.append(alert)
aa_221(t) ==
    /\ Goto(t, "aa_221", "aa_232")
    /\ alerts' = DequeAppend(alerts, NewAlert(ret[t].alert_id, args[t]),
                             max_alerts)
    /\ UNCHANGED <<elsewhere, args, tmp, ret, alert_constructed, max_alerts,
                   alert_lock, alert_counter, issued, before, prev>>

\* line 232: return alert_id
aa_232(t) == AlertReturn(t, "aa_232", alerts, ret[t].alert_id)

add_alert(t) ==
    \/ aa_217(t) \/ aa_218(t) \/ aa_218s(t) \/ aa_219(t) \/ aa_221(t)
    \/ aa_232(t)

(* get_recent_alerts, notifications.py:234-264 *)

AlertLimits == (0 - 1)..MaxAlerts

\* lines 250: alerts.sort(key=timestamp, reverse=True), a stable sort:
\* x goes behind every element that is not older than x.
RECURSIVE InsertByTimestamp(_, _)
InsertByTimestamp(s, x) ==
    IF s = <<>> THEN <<x>>
    ELSE IF Head(s).timestamp < x.timestamp THEN <<x>> \o s
    ELSE <<Head(s)>> \o InsertByTimestamp(Tail(s), x)

RECURSIVE SortedByTimestamp(_)
SortedByTimestamp(s) ==
    IF s = <<>> THEN <<>>
    ELSE InsertByTimestamp(SortedByTimestamp(SubSeq(s, 1, Len(s) - 1)),
                           s[Len(s)])

\* A slice that keeps the end of the list: s[-stop:] for a stop in 1..len.
SliceTo_FromEnd(s, stop) ==
    LET n  == Len(s)
        hi == IF stop < 0 THEN 0 ELSE (IF stop > n THEN n ELSE stop)
    IN  SubSeq(s, n - hi + 1, n)

\* s[:stop] with Python's treatment of a negative or too large stop.
SliceTo(s, stop) ==
    LET n  == Len(s)
        hi == IF stop < 0 THEN (IF n + stop < 0 THEN 0 ELSE n + stop)
              ELSE (IF stop > n THEN n ELSE stop)
    IN  SubSeq(s, 1, hi)

\* lines 253-262: the dict made of one Alert.
AlertView(alert) ==
    [id        |-> alert.id,
     timestamp |-> alert.timestamp,
     datetime  |-> IsoFormat(FromTimestamp(alert.timestamp)),
     type      |-> alert.alert_type,
     title     |-> alert.title,
     message   |-> alert.message,
     details   |-> alert.details,
     read      |-> alert.read]

\* lines 245-264: the body of get_recent_alerts.
RecentAlerts(limit, unread_only) ==
    LET Unread(a) == ~a.read
        listed == IF unread_only THEN SelectSeq(alerts, Unread) ELSE alerts
        first  == SliceTo(SortedByTimestamp(listed), limit)
    IN  [i \in 1..Len(first) |-> AlertView(first[i])]

get_recent_alerts_call(t, L) ==
    \E l \in L, u \in BOOLEAN :
        AlertCall(t, "get_recent_alerts", [limit |-> l, unread_only |-> u],
                  "gra_244")

\* line 244
gra_244(t) == AlertEnter(t, "gra_244", "gra_245")

\* lines 245-264
gra_245(t) ==
    AlertReturn(t, "gra_245", alerts,
                RecentAlerts(args[t].limit, args[t].unread_only))

get_recent_alerts(t) == gra_244(t) \/ gra_245(t)

(* mark_alert_read, notifications.py:266-280 *)

\* An assignment that flips the flag.
MarkRead_Toggle(alert) == [alert EXCEPT !.read = ~@]

\* lines 278 and 292: alert.read = True
MarkRead(alert) == [alert EXCEPT !.read = TRUE]

\* An id that add_alert never makes: the counter of an id is at least 1.
UnknownId == AlertId(0, 0)

\* The ids a caller may pass: those it was given, and an unknown one.
KnownIds == {issued[i] : i \in 1..Len(issued)} \cup {UnknownId}

\* A search that passes over the alerts already read.
Find_UnreadOnly(alert_id) ==
    IF \E i \in 1..Len(alerts) : alerts[i].id = alert_id /\ ~alerts[i].read
    THEN CHOOSE i \in 1..Len(alerts) :
             alerts[i].id = alert_id /\ ~alerts[i].read
    ELSE 0

\* lines 276-277: the position of the first alert with this id, 0 if none.
Find(alert_id) ==
    IF \E i \in 1..Len(alerts) : alerts[i].id = alert_id
    THEN CHOOSE i \in 1..Len(alerts) :
             /\ alerts[i].id = alert_id
             /\ \A j \in 1..(i - 1) : alerts[j].id # alert_id
    ELSE 0

mark_alert_read_call(t) ==
    \E i \in KnownIds :
        AlertCall(t, "mark_alert_read", [alert_id |-> i], "mar_275")

\* line 275
mar_275(t) == AlertEnter(t, "mar_275", "mar_276")

\* A loop that falls through to `return True`.
mar_276_ReturnsTrue(t) ==
    /\ pc[t] = "mar_276"
    /\ LET i == Find(args[t].alert_id)
       IN  IF i > 0
           THEN AlertReturn(t, "mar_276",
                            [alerts EXCEPT ![i] = MarkRead(@)], TRUE)
           ELSE AlertReturn(t, "mar_276", alerts, TRUE)

\* lines 276-280
mar_276(t) ==
    /\ pc[t] = "mar_276"
    /\ LET i == Find(args[t].alert_id)
       IN  IF i > 0
           THEN AlertReturn(t, "mar_276",
                            [alerts EXCEPT ![i] = MarkRead(@)], TRUE)
           ELSE AlertReturn(t, "mar_276", alerts, FALSE)

mark_alert_read(t) == mar_275(t) \/ mar_276(t)

(* mark_all_read, notifications.py:282-294 *)

\* Number of alerts of the ledger s that are not read.
Unread(s) == Cardinality({i \in 1..Len(s) : ~s[i].read})

mark_all_read_call(t) == AlertCall(t, "mark_all_read", [limit |-> 0], "mall_288")

\* line 288
mall_288(t) == AlertEnter(t, "mall_288", "mall_289")

\* A count of every alert visited, not only of those that were unread.
mall_289_CountsAll(t) ==
    AlertReturn(t, "mall_289",
                [i \in 1..Len(alerts) |->
                    IF alerts[i].read THEN alerts[i] ELSE MarkRead(alerts[i])],
                Len(alerts))

\* lines 289-294
mall_289(t) ==
    AlertReturn(t, "mall_289",
                [i \in 1..Len(alerts) |->
                    IF alerts[i].read THEN alerts[i] ELSE MarkRead(alerts[i])],
                Unread(alerts))

mark_all_read(t) == mall_288(t) \/ mall_289(t)

(* get_unread_count, notifications.py:296-303 *)

get_unread_count_call(t) ==
    AlertCall(t, "get_unread_count", [limit |-> 0], "guc_302")

\* line 302
guc_302(t) == AlertEnter(t, "guc_302", "guc_303")

\* line 303
guc_303(t) == AlertReturn(t, "guc_303", alerts, Unread(alerts))

get_unread_count(t) == guc_302(t) \/ guc_303(t)

----------------------------------------------------------------------------
(* Specifications *)

\* Concurrent writers and a reader, a small workload.
Next ==
    \/ \E t \in Writers :
          \/ record_request_call(t, SmallRequests, MaxCalls)
          \/ record_request(t)
    \/ \E t \in Readers :
          \/ get_statistics_call(t)
          \/ get_statistics(t)
          \/ get_recent_requests_call(t, {MaxLimit})
          \/ get_recent_requests(t)
          \/ Resume(t)

Spec == Init /\ [][Next]_vars

\* One caller, the full workload.
NextSeq ==
    \E t \in SeqThreads :
        \/ record_request_call(t, Requests, MaxRecords)
        \/ record_request(t)
        \/ get_statistics_call(t)
        \/ get_statistics(t)
        \/ get_recent_requests_call(t, Limits)
        \/ get_recent_requests(t)
        \/ get_endpoint_stats_call(t)
        \/ get_endpoint_stats(t)
        \/ get_weekly_statistics_call(t, SeqRanges)
        \/ get_weekly_statistics(t)
        \/ Resume(t)

SpecSeq == Init /\ [][NextSeq]_vars

\* The construction of a collector on a Monday at 00:00.
InitClock ==
    /\ now = ClockStart
    /\ \E c \in CapArgs : MonitoringCollector_init(c)
    /\ pc = [t \in Threads |-> "idle"]
    /\ args = [t \in Threads |-> NoArgs]
    /\ metrics = [t \in Threads |-> NoMetrics]
    /\ tmp = [t \in Threads |-> 0]
    /\ ret = [t \in Threads |-> NoRet]
    /\ log = <<>>
    /\ done = <<>>
    /\ contended = FALSE
    /\ AlertManager_init(MaxAlerts)

\* One caller and a clock that advances, a small workload.
NextClock ==
    \/ Tick
    \/ \E t \in SeqThreads :
          \/ record_request_call(t, SmallRequests, MaxClockRecords)
          \/ record_request(t)
          \/ get_error_rate_call(t, Windows)
          \/ get_error_rate(t)
          \/ get_requests_by_date_range_call(t, DateRanges(Instants))
          \/ get_requests_by_date_range(t)
          \/ get_weekly_statistics_call(t, DateRanges(Instants))
          \/ get_weekly_statistics(t)
          \/ Resume(t)

SpecClock == InitClock /\ [][NextClock]_vars

\* Concurrent writers and a reader that edits the values it was handed.
NextAlias ==
    \/ \E t \in Writers :
          \/ record_request_call(t, SmallRequests, MaxFairCalls)
          \/ record_request(t)
    \/ \E t \in Readers :
          \/ get_statistics_call(t)
          \/ get_statistics(t)
          \/ get_recent_requests_call(t, {MaxLimit})
          \/ get_recent_requests(t)
          \/ get_requests_by_date_range_call(t, DateRanges({0}))
          \/ get_requests_by_date_range(t)
          \/ caller_edits(t)
          \/ Resume(t)

SpecAlias == Init /\ [][NextAlias]_vars

\* The construction of an AlertManager on a Monday at 00:00, next to a
\* collector that is left alone.
InitAlerts ==
    /\ now = ClockStart
    /\ MonitoringCollector_init(MaxCap)
    /\ pc = [t \in Threads |-> "idle"]
    /\ args = [t \in Threads |-> NoArgs]
    /\ metrics = [t \in Threads |-> NoMetrics]
    /\ tmp = [t \in Threads |-> 0]
    /\ ret = [t \in Threads |-> NoRet]
    /\ log = <<>>
    /\ done = <<>>
    /\ contended = FALSE
    /\ \E c \in (0 - 1)..MaxAlerts : AlertManager_init(c)

\* Concurrent callers of add_alert.
NextAdders ==
    \E t \in Writers :
        \/ add_alert_call(t, AlertInputs, MaxAdds)
        \/ add_alert(t)
        \/ Resume(t)

SpecAdders == InitAlerts /\ [][NextAdders]_vars

\* One caller of every AlertManager method.
NextAlerts ==
    \E t \in SeqThreads :
          \/ add_alert_call(t, AlertInputs, MaxAdds)
          \/ add_alert(t)
          \/ get_recent_alerts_call(t, AlertLimits)
          \/ get_recent_alerts(t)
          \/ mark_alert_read_call(t)
          \/ mark_alert_read(t)
          \/ mark_all_read_call(t)
          \/ mark_all_read(t)
          \/ get_unread_count_call(t)
          \/ get_unread_count(t)
          \/ AlertResume(t)

SpecAlerts == InitAlerts /\ [][NextAlerts]_vars

\* One caller that adds, reads and lists alerts, and a clock that advances.
NextAlertClock ==
    \/ Tick
    \/ \E t \in SeqThreads :
          \/ add_alert_call(t, AlertInputs, MaxClockRecords)
          \/ add_alert(t)
          \/ mark_alert_read_call(t)
          \/ mark_alert_read(t)
          \/ get_recent_alerts_call(t, AlertLimits)
          \/ get_recent_alerts(t)
          \/ Resume(t)

SpecAlertClock == InitAlerts /\ [][NextAlertClock]_vars

\* A step of a call of thread t that has started and not yet returned.
Step(t) ==
    \/ record_request(t)
    \/ get_statistics(t)
    \/ get_recent_requests(t)
    \/ get_error_rate(t)
    \/ get_average_response_time(t)
    \/ get_endpoint_stats(t)
    \/ get_requests_by_date_range(t)
    \/ get_weekly_statistics(t)

\* A collector of capacity 1, so that the writers evict.
InitFair ==
    /\ now = 0
    /\ MonitoringCollector_init(1)
    /\ pc = [t \in Threads |-> "idle"]
    /\ args = [t \in Threads |-> NoArgs]
    /\ metrics = [t \in Threads |-> NoMetrics]
    /\ tmp = [t \in Threads |-> 0]
    /\ ret = [t \in Threads |-> NoRet]
    /\ log = <<>>
    /\ done = <<>>
    /\ contended = FALSE
    /\ AlertManager_init(MaxAlerts)

\* The failed request of the small workload.
FairRequests == {r \in SmallRequests : r.error_occurred}

\* Concurrent writers and a reader that calls every query.
NextFair ==
    \/ \E t \in Writers : record_request_call(t, FairRequests, MaxFairCalls)
    \/ \E t \in Readers :
          \/ get_statistics_call(t)
          \/ get_recent_requests_call(t, {MaxLimit})
          \/ get_error_rate_call(t, {0})
          \/ get_average_response_time_call(t, {0})
          \/ get_endpoint_stats_call(t)
          \/ get_requests_by_date_range_call(t, DateRanges({0}))
          \/ get_weekly_statistics_call(t, DateRanges({0}))
          \/ Resume(t)
    \/ \E t \in Threads : Step(t)

\* Fair scheduling: a thread that can run keeps running, and a thread that
\* waits for the lock gets it if the lock is free again and again.  Every
\* step of a call changes pc.
Fairness == \A t \in Threads : SF_pc(Step(t))

SpecFair == InitFair /\ [][NextFair]_vars /\ Fairness

\* Time passes at any moment, also while calls are in progress; the clock
\* never goes backwards.
Advance ==
    /\ \E i \in Instants : i > now /\ now' = i
    /\ UNCHANGED <<collector, locals, ghost, manager>>

\* Concurrent writers under a clock that advances during their calls.
NextOrder ==
    \/ Advance
    \/ \E t \in Writers :
          \/ record_request_call(t, FairRequests, MaxCalls)
          \/ record_request(t)

SpecOrder == InitClock /\ [][NextOrder]_vars

----------------------------------------------------------------------------
(* Vocabulary of the properties *)

Minimum(a, b) == IF a < b THEN a ELSE b

\* The last n elements of s.
LastN(s, n) == SubSeq(s, Len(s) - n + 1, Len(s))

\* Thread t holds the result of a call of `op` that returned a value.
Returned(t, op) ==
    pc[t] = "returned" /\ args[t].op = op /\ ret[t].kind = "value"

\* No call of record_request is in progress.
NoRecordInFlight == \A t \in Threads : args[t].op # "record_request"

\* Number of returned record_request calls whose argument `field` was k.
DoneWith(field, k) == Cardinality({i \in 1..Len(done) : done[i][field] = k})

DoneValues(field) == {done[i][field] : i \in 1..Len(done)}

\* The sample without its timestamp: the call it came from.
CallOf(m) == [f \in (DOMAIN m) \ {"timestamp"} |-> m[f]]

\* The retained window a ring buffer of this capacity must hold.
Window == LastN(log, Minimum(Len(log), max_history))

----------------------------------------------------------------------------
\* C1: after N record_request calls have returned (none in progress), the
\* total_requests reported by get_statistics equals N, for every collector
\* that could be constructed.
C1_TotalRequestsIsN ==
    \A t \in Threads :
        (Returned(t, "get_statistics") /\ NoRecordInFlight)
            => ret[t].value.total_requests = Len(done)

\* C2: with capacity c >= 1 the ring buffer holds exactly the last min(N, c)
\* appended samples in insertion order, never more than c, and once c + 1
\* samples were recorded the first one is absent from get_recent_requests(c).
C2_RingBufferKeepsLastSamples ==
    (constructed = "ok" /\ max_history >= 1) =>
        /\ Len(request_history) <= max_history
        /\ request_history = Window
        /\ \A t \in Threads :
               (/\ Returned(t, "get_recent_requests")
                /\ args[t].limit = max_history
                /\ NoRecordInFlight
                /\ Len(log) >= max_history + 1)
               => \A i \in 1..Len(ret[t].value) :
                      ret[t].value[i].uid # log[1].uid

\* C2 witness: capacity 3, four samples recorded, get_recent_requests(3)
\* returned three entries (the oldest sample was evicted).
C2_Witness ==
    /\ max_history = 3
    /\ Len(log) = 4
    /\ \E t \in Threads :
           /\ Returned(t, "get_recent_requests")
           /\ args[t].limit = 3
           /\ Len(ret[t].value) = 3

\* C3: once all K concurrent record_request calls have returned,
\* total_requests = K, every per-status, per-path and per-method count is the
\* number of calls with that key, and the ring buffer holds min(K, capacity)
\* samples, each from a distinct call.
C3_ConcurrentRecordsAllCounted ==
    (constructed = "ok" /\ NoRecordInFlight) =>
        /\ total_requests = Len(done)
        /\ DOMAIN status_code_counts = DoneValues("status_code")
        /\ \A k \in DOMAIN status_code_counts :
               status_code_counts[k] = DoneWith("status_code", k)
        /\ DOMAIN path_counts = DoneValues("path")
        /\ \A k \in DOMAIN path_counts : path_counts[k] = DoneWith("path", k)
        /\ DOMAIN method_counts = DoneValues("method")
        /\ \A k \in DOMAIN method_counts :
               method_counts[k] = DoneWith("method", k)
        /\ Len(request_history) = Minimum(Len(done), max_history)
        /\ \A i, j \in 1..Len(request_history) :
               i # j => request_history[i].uid # request_history[j].uid
        /\ \A i \in 1..Len(request_history) :
               \E j \in 1..Len(done) : CallOf(request_history[i]) = done[j]

\* C3 witness: three calls have returned, some of them overlapped (one
\* took the lock while another was waiting for it), with different keys,
\* and the ring buffer overflowed.
C3_Witness ==
    /\ NoRecordInFlight
    /\ Len(done) = 3
    /\ contended
    /\ done[1].status_code # done[2].status_code
    /\ max_history = 2
    /\ Len(request_history) = 2

\* C4: every get_statistics result for a non-empty window is a consistent
\* view of the lifetime tallies: status_codes and top_methods each sum to
\* total_requests, total_errors <= total_requests, and the classified errors
\* of error_types are no more than total_errors.
C4_SnapshotConsistent ==
    \A t \in Threads :
        (/\ Returned(t, "get_statistics")
         /\ "recent_request_count" \in DOMAIN ret[t].value
         /\ ret[t].value.recent_request_count > 0) =>
            LET v == ret[t].value IN
            /\ SumValues(v.status_codes) = v.total_requests
            /\ SumValues(v.top_methods) = v.total_requests
            /\ v.total_errors <= v.total_requests
            /\ SumValues(v.error_types) <= v.total_errors

\* C4 witness: a snapshot taken after an eviction (two lifetime requests,
\* one retained) while another thread was inside record_request, waiting
\* for the lock.
C4_Witness ==
    \E t \in Threads :
        /\ Returned(t, "get_statistics")
        /\ ret[t].value.total_requests = 2
        /\ ret[t].value.recent_request_count = 1
        /\ \E w \in Writers : pc[w] = "rr_74"

----------------------------------------------------------------------------
\* C5: a capacity of 0 or below is rejected by the constructor and every
\* positive capacity is accepted.
C5_NonPositiveCapacityRejected ==
    /\ max_history <= 0 => constructed = "ValueError"
    /\ max_history > 0 => constructed = "ok"

\* The actual lifetime tallies: the returned calls counted by a key.
DoneErrors == Cardinality({i \in 1..Len(done) : done[i].error_occurred})

Tally(field) == [k \in DoneValues(field) |-> DoneWith(field, k)]

\* C6: when get_statistics runs on an empty ring buffer, the windowed
\* figures are 0 and the lifetime figures (total_requests, error_rate, the
\* lifetime tables) are the actual tallies of the calls made so far.
C6_EmptyWindowKeepsLifetimeFigures ==
    \A t \in Threads :
        (/\ Returned(t, "get_statistics")
         /\ NoRecordInFlight
         /\ request_history = <<>>) =>
            LET v == ret[t].value IN
            /\ v.average_response_time_ms.num = 0
            /\ v.total_requests = Len(done)
            /\ v.error_rate.num * Len(done) = DoneErrors * v.error_rate.den
            /\ v.status_codes = Tally("status_code")
            /\ v.top_methods = Tally("method")

\* The keys of the result for a non-empty window (lines 154-170).
FullStatisticsKeys ==
    {"uptime_seconds", "total_requests", "total_errors", "requests_per_second",
     "error_rate", "average_response_time_ms", "min_response_time_ms",
     "max_response_time_ms", "response_time_percentiles", "status_codes",
     "top_paths", "top_methods", "top_endpoints", "error_types",
     "recent_request_count"}

\* C7: get_statistics on an empty window returns every field a snapshot of
\* a non-empty window has.
C7_EmptyStatisticsFullyShaped ==
    \A t \in Threads :
        (/\ Returned(t, "get_statistics")
         /\ NoRecordInFlight
         /\ request_history = <<>>)
            => FullStatisticsKeys \subseteq DOMAIN ret[t].value

\* C8: for every limit >= 0, get_recent_requests(limit) returns exactly the
\* last min(limit, retained) retained samples in insertion order, hence
\* never more than limit entries.
C8_RecentRequestsLastLimit ==
    \A t \in Threads :
        (/\ Returned(t, "get_recent_requests")
         /\ NoRecordInFlight
         /\ args[t].limit >= 0) =>
            LET v   == ret[t].value
                exp == LastN(request_history,
                             Minimum(args[t].limit, Len(request_history)))
            IN  /\ Len(v) <= args[t].limit
                /\ Len(v) = Len(exp)
                /\ \A i \in 1..Len(exp) :
                       /\ v[i].uid = exp[i].uid
                       /\ v[i].duration_ms = exp[i].duration

\* The scenario of C9: capacity 3, durations 10, 20, 30, 40 recorded in order.
C9_Scenario ==
    /\ max_history = 3
    /\ Durations(log) = <<10, 20, 30, 40>>
    /\ NoRecordInFlight

\* C9: average, minimum and maximum of get_statistics are those of exactly
\* the retained samples (the last min(N, capacity) recorded); in the
\* scenario get_recent_requests(10) returns the durations [20, 30, 40] and
\* the average is 30, the minimum 20, the maximum 40.
C9_WindowedAverageMinMax ==
    \A t \in Threads :
        /\ (/\ Returned(t, "get_statistics")
            /\ NoRecordInFlight
            /\ Window # <<>>) =>
               LET v == ret[t].value
                   d == Durations(Window)
               IN  /\ v.average_response_time_ms.num * Len(d)
                          = SeqSum(d) * v.average_response_time_ms.den
                   /\ v.average_response_time_ms.den > 0
                   /\ \E i \in 1..Len(d) : d[i] = v.min_response_time_ms
                   /\ \A i \in 1..Len(d) : v.min_response_time_ms <= d[i]
                   /\ \E i \in 1..Len(d) : d[i] = v.max_response_time_ms
                   /\ \A i \in 1..Len(d) : v.max_response_time_ms >= d[i]
        /\ (C9_Scenario /\ Returned(t, "get_statistics")) =>
               /\ ret[t].value.average_response_time_ms.num
                      = 30 * ret[t].value.average_response_time_ms.den
               /\ ret[t].value.min_response_time_ms = 20
               /\ ret[t].value.max_response_time_ms = 40
        /\ (C9_Scenario /\ Returned(t, "get_recent_requests")
                        /\ args[t].limit = 10) =>
               [i \in 1..Len(ret[t].value) |-> ret[t].value[i].duration_ms]
                   = <<20, 30, 40>>

\* C9 witness: the scenario, with the snapshot returned.
C9_Witness ==
    /\ C9_Scenario
    /\ \E t \in Threads :
           /\ Returned(t, "get_statistics")
           /\ ret[t].value.recent_request_count = 3

\* v is the element of rank k (from 0) of the durations d sorted ascending.
IsOrderStatistic(v, d, k) ==
    /\ \E i \in 1..Len(d) : d[i] = v
    /\ Cardinality({i \in 1..Len(d) : d[i] < v}) <= k
    /\ k < Cardinality({i \in 1..Len(d) : d[i] <= v})

\* C10: for a window of n >= 1 durations, get_statistics never fails and
\* returns for p in {0.50, 0.95, 0.99} the element of rank floor(p * n) of
\* the durations sorted ascending, a rank that is always below n.
C10_PercentileIsOrderStatistic ==
    \A t \in Threads :
        (/\ pc[t] = "returned"
         /\ args[t].op = "get_statistics"
         /\ NoRecordInFlight
         /\ Window # <<>>) =>
            LET d == Durations(Window)
                n == Len(d)
            IN  /\ ret[t].kind = "value"
                /\ \A p \in {50, 95, 99} : (p * n) \div 100 < n
                /\ IsOrderStatistic(ret[t].value.response_time_percentiles.p50,
                                    d, (50 * n) \div 100)
                /\ IsOrderStatistic(ret[t].value.response_time_percentiles.p95,
                                    d, (95 * n) \div 100)
                /\ IsOrderStatistic(ret[t].value.response_time_percentiles.p99,
                                    d, (99 * n) \div 100)

\* C10 witness: a snapshot of three retained durations that were not
\* recorded in ascending order, with p50 below p95.
C10_Witness ==
    /\ Len(request_history) = 3
    /\ request_history[1].duration > request_history[2].duration
    /\ \E t \in Threads :
           /\ Returned(t, "get_statistics")
           /\ NoRecordInFlight
           /\ ret[t].value.response_time_percentiles.p50
                  < ret[t].value.response_time_percentiles.p95

----------------------------------------------------------------------------
\* C11: for every non-empty retained window the percentiles are ordered
\* p50 <= p95 <= p99, with min_response_time_ms <= p50 and
\* p99 <= max_response_time_ms.
C11_PercentilesMonotonic ==
    \A t \in Threads :
        (/\ Returned(t, "get_statistics")
         /\ "response_time_percentiles" \in DOMAIN ret[t].value) =>
            LET v == ret[t].value
                p == v.response_time_percentiles
            IN  /\ v.min_response_time_ms <= p.p50
                /\ p.p50 <= p.p95
                /\ p.p95 <= p.p99
                /\ p.p99 <= v.max_response_time_ms

\* C11 witness: a snapshot of a window of three distinct durations whose
\* last recorded one is not the largest, with min < p50 < p95.
C11_Witness ==
    /\ Len(request_history) = 3
    /\ request_history[3].duration < request_history[1].duration
    /\ \E t \in Threads :
           /\ Returned(t, "get_statistics")
           /\ NoRecordInFlight
           /\ ret[t].value.min_response_time_ms
                  < ret[t].value.response_time_percentiles.p50
           /\ ret[t].value.response_time_percentiles.p50
                  < ret[t].value.response_time_percentiles.p95

\* The returned calls that were errors of a given kind.
DoneErrorTypes ==
    {done[i].error_type : i \in {j \in 1..Len(done) :
        done[j].error_occurred /\ Truthy(done[j].error_type)}}

DoneErrorsOfType(k) ==
    Cardinality({i \in 1..Len(done) :
        done[i].error_occurred /\ done[i].error_type = k})

\* C12: error_rate of get_statistics is lifetime errors / lifetime requests
\* and error_types[k] is the number of calls made with error_occurred and
\* error_type k (calls without error_occurred, or without a kind, are in no
\* bucket).
C12_LifetimeErrorRate ==
    \A t \in Threads :
        (Returned(t, "get_statistics") /\ NoRecordInFlight) =>
            LET v == ret[t].value IN
            /\ v.error_rate.num * Len(done) = DoneErrors * v.error_rate.den
            /\ v.error_rate.den > 0
            /\ v.error_types = [k \in DoneErrorTypes |-> DoneErrorsOfType(k)]

IsTopOf(top, tally) ==
    /\ DOMAIN top \subseteq DOMAIN tally
    /\ \A k \in DOMAIN top : top[k] = tally[k]
    /\ Cardinality(DOMAIN top)
           = Minimum(TopLimit, Cardinality(DOMAIN tally))
    /\ \A a \in DOMAIN top : \A b \in (DOMAIN tally) \ (DOMAIN top) :
           tally[a] >= tally[b]

\* The returned calls counted by endpoint, those without an endpoint left out.
EndpointTally ==
    [k \in {e \in DoneValues("endpoint") : Truthy(e)} |-> DoneWith("endpoint", k)]

----------------------------------------------------------------------------
\* The retained samples that carry the endpoint e.
RetainedWith(e) == {i \in 1..Len(Window) : Window[i].endpoint = e}

\* C15: get_endpoint_stats has one entry per endpoint carried by a retained
\* sample and no other (none for samples without endpoint, none keyed by a
\* path, none for an evicted endpoint); request_count is the number of
\* retained samples with that endpoint, error_count the number of those
\* with error_occurred, and the status_codes histogram sums to
\* request_count.
C15_EndpointStatsGroups ==
    \A t \in Threads :
        (Returned(t, "get_endpoint_stats") /\ NoRecordInFlight) =>
            LET v == ret[t].value IN
            /\ DOMAIN v = {Window[i].endpoint : i \in 1..Len(Window)} \ {None}
            /\ \A e \in DOMAIN v :
                   /\ v[e].request_count = Cardinality(RetainedWith(e))
                   /\ v[e].request_count > 0
                   /\ v[e].error_count = Cardinality(
                          {i \in RetainedWith(e) : Window[i].error_occurred})
                   /\ SumValues(v[e].status_codes) = v[e].request_count

\* C15 witness: the result has an entry although a retained sample has no
\* endpoint and the endpoint of an evicted sample has no entry.
C15_Witness ==
    \E t \in Threads :
        /\ Returned(t, "get_endpoint_stats")
        /\ NoRecordInFlight
        /\ DOMAIN ret[t].value # {}
        /\ \E i \in 1..Len(request_history) : request_history[i].endpoint = None
        /\ \E i \in 1..Len(log) :
               /\ Truthy(log[i].endpoint)
               /\ log[i].endpoint \notin DOMAIN ret[t].value

----------------------------------------------------------------------------
\* The retained samples stamped at or after the instant c.
RetainedSince(c) == {i \in 1..Len(Window) : Window[i].timestamp >= c}

\* C14: get_error_rate(w) returns the number of retained samples stamped at
\* or after now - w with error_occurred, divided by the number of retained
\* samples stamped at or after now - w; it returns 0 when there is no such
\* sample (so never divides by zero), and the result lies between 0 and 1.
C14_ErrorRateInWindow ==
    \A t \in Threads :
        (Returned(t, "get_error_rate") /\ NoRecordInFlight) =>
            LET v      == ret[t].value
                recent == RetainedSince(now - args[t].time_window)
                errors == {i \in recent : Window[i].error_occurred}
            IN  /\ v.den > 0
                /\ 0 <= v.num /\ v.num <= v.den
                /\ recent = {} => v.num = 0
                /\ recent # {} =>
                       v.num * Cardinality(recent) = Cardinality(errors) * v.den

\* C14 witness: a window that holds an error at its very edge and leaves
\* out an older retained sample.
C14_Witness ==
    \E t \in Threads :
        /\ Returned(t, "get_error_rate")
        /\ \E i \in 1..Len(request_history) :
               /\ request_history[i].timestamp = now - args[t].time_window
               /\ request_history[i].error_occurred
        /\ \E i \in 1..Len(request_history) :
               request_history[i].timestamp < now - args[t].time_window
        /\ ret[t].value.num > 0

\* C14 witness of the empty case: retained samples, none in the window.
C14_WitnessEmpty ==
    \E t \in Threads :
        /\ Returned(t, "get_error_rate")
        /\ request_history # <<>>
        /\ RetainedSince(now - args[t].time_window) = {}

----------------------------------------------------------------------------
\* The hour a datetime argument denotes.
HourOf(dt) == 24 * dt.day + dt.hour

\* The retained samples stamped within [a, b], both ends included.
RetainedWithin(a, b) ==
    {i \in 1..Len(Window) : a <= Window[i].timestamp /\ Window[i].timestamp <= b}

\* C16: get_requests_by_date_range(start, end) returns exactly the retained
\* samples stamped within [start, end], both bounds included, each once and
\* in insertion order; it returns the empty list when there is none.
C16_DateRangeInclusive ==
    \A t \in Threads :
        (Returned(t, "get_requests_by_date_range") /\ NoRecordInFlight) =>
            LET v == ret[t].value
                within == RetainedWithin(HourOf(args[t].start_date),
                                         HourOf(args[t].end_date))
            IN  /\ {v[j] : j \in 1..Len(v)} = {Window[i] : i \in within}
                /\ Len(v) = Cardinality(within)
                /\ \A j, k \in 1..Len(v) : j < k => v[j].uid < v[k].uid

\* C16 witness: the result holds a sample stamped exactly at end and
\* leaves out a retained sample.
C16_Witness ==
    \E t \in Threads :
        /\ Returned(t, "get_requests_by_date_range")
        /\ ret[t].value # <<>>
        /\ Len(ret[t].value) < Len(request_history)
        /\ \E j \in 1..Len(ret[t].value) :
               ret[t].value[j].timestamp = HourOf(args[t].end_date)

\* C16 witness of the order: two samples stamped at different hours.
C16_WitnessOrder ==
    \E t \in Threads :
        /\ Returned(t, "get_requests_by_date_range")
        /\ Len(ret[t].value) > 1
        /\ ret[t].value[1].timestamp < ret[t].value[2].timestamp

\* C16 witness of the evicted period: a sample of the range was recorded,
\* none is retained, and the result is the empty list.
C16_WitnessEvicted ==
    \E t \in Threads :
        /\ Returned(t, "get_requests_by_date_range")
        /\ ret[t].value = <<>>
        /\ \E i \in 1..Len(log) :
               /\ HourOf(args[t].start_date) <= log[i].timestamp
               /\ log[i].timestamp <= HourOf(args[t].end_date)

----------------------------------------------------------------------------
WeeklyKeys == {"start_date", "end_date", "total_requests", "total_errors",
               "error_rate", "avg_response_time", "top_endpoints",
               "error_breakdown", "status_code_distribution",
               "hourly_distribution", "daily_distribution"}

\* The retained samples matched by the range of thread t's call.
Matched(t) ==
    RetainedWithin(HourOf(args[t].start_date), HourOf(args[t].end_date))

\* C17: a call of get_weekly_statistics never ends in an exception, its
\* result always has every key, and when no retained sample falls in the
\* range the result is the default: zero totals and rates, empty
\* top_endpoints, empty breakdown and distributions.
C17_WeeklyDefaultOnEmptyRange ==
    \A t \in Threads :
        (pc[t] = "returned" /\ args[t].op = "get_weekly_statistics"
            /\ NoRecordInFlight) =>
            /\ ret[t].kind = "value"
            /\ DOMAIN ret[t].value = WeeklyKeys
            /\ Matched(t) = {} =>
                   LET v == ret[t].value IN
                   /\ v.start_date = <<args[t].start_date.day,
                                       args[t].start_date.hour>>
                   /\ v.end_date = <<args[t].end_date.day,
                                     args[t].end_date.hour>>
                   /\ v.total_requests = 0
                   /\ v.total_errors = 0
                   /\ v.error_rate.num = 0 /\ v.error_rate.den > 0
                   /\ v.avg_response_time.num = 0
                   /\ v.avg_response_time.den > 0
                   /\ v.top_endpoints = <<>>
                   /\ DOMAIN v.error_breakdown = {}
                   /\ DOMAIN v.status_code_distribution = {}
                   /\ DOMAIN v.hourly_distribution = {}
                   /\ DOMAIN v.daily_distribution = {}

\* C17 witness: samples are retained and the start of the range is later
\* than its end.
C17_Witness ==
    \E t \in Threads :
        /\ Returned(t, "get_weekly_statistics")
        /\ request_history # <<>>
        /\ HourOf(args[t].start_date) > HourOf(args[t].end_date)
        /\ ret[t].value.total_requests = 0

\* C17 witness of the evicted range: a sample of the range was recorded
\* and none is retained.
C17_WitnessEvicted ==
    \E t \in Threads :
        /\ Returned(t, "get_weekly_statistics")
        /\ Matched(t) = {}
        /\ \E i \in 1..Len(log) :
               /\ HourOf(args[t].start_date) <= log[i].timestamp
               /\ log[i].timestamp <= HourOf(args[t].end_date)

\* C17 witness of the empty collector.
C17_WitnessEmptyCollector ==
    \E t \in Threads :
        /\ Returned(t, "get_weekly_statistics")
        /\ log = <<>>
        /\ max_history > 0

----------------------------------------------------------------------------
\* The day of the week of the hour ts, Monday = 0: ClockStart is a Monday.
WeekdayOf(ts) == ((ts - ClockStart) \div 24) % 7

\* The hour of the day of the hour ts.
HourOfDay(ts) == ts % 24

\* d is the histogram of the values val[i] of the matched samples i.
Partitions(d, val) ==
    /\ DOMAIN d = {val[i] : i \in DOMAIN val}
    /\ \A k \in DOMAIN d :
           d[k] = Cardinality({i \in DOMAIN val : val[i] = k})
    /\ \A k \in DOMAIN d : d[k] > 0
    /\ SumValues(d) = Cardinality(DOMAIN val)

\* C18: in the result of get_weekly_statistics total_requests is the number
\* of retained samples matched by the range; status_code_distribution,
\* hourly_distribution (keys in 0..23) and daily_distribution (keys in
\* 0..6, Monday = 0) are histograms of the matched samples that sum to
\* total_requests, with a key only for a value that a matched sample has;
\* matched samples all made on a Monday give daily_distribution = {0: count}.
C18_WeeklyDistributionsPartition ==
    \A t \in Threads :
        (Returned(t, "get_weekly_statistics") /\ NoRecordInFlight) =>
            LET v == ret[t].value
                status  == [i \in Matched(t) |-> Window[i].status_code]
                hour    == [i \in Matched(t) |-> HourOfDay(Window[i].timestamp)]
                weekday == [i \in Matched(t) |-> WeekdayOf(Window[i].timestamp)]
            IN  /\ v.total_requests = Cardinality(Matched(t))
                /\ Partitions(v.status_code_distribution, status)
                /\ Partitions(v.hourly_distribution, hour)
                /\ Partitions(v.daily_distribution, weekday)
                /\ DOMAIN v.hourly_distribution \subseteq 0..23
                /\ DOMAIN v.daily_distribution \subseteq 0..6
                /\ (/\ Matched(t) # {}
                    /\ \A i \in Matched(t) :
                           /\ Window[i].timestamp >= ClockStart
                           /\ Window[i].timestamp < ClockStart + 24)
                   => v.daily_distribution = (0 :> v.total_requests)

\* C18 witness: the Monday-only scenario, with two samples matched at
\* different hours of the Monday.
C18_Witness ==
    \E t \in Threads :
        /\ Returned(t, "get_weekly_statistics")
        /\ ret[t].value.total_requests > 1
        /\ ret[t].value.daily_distribution = (0 :> ret[t].value.total_requests)
        /\ Cardinality(DOMAIN ret[t].value.hourly_distribution) > 1

\* C18 witness of two days: matched samples of Monday and of Tuesday.
C18_WitnessTwoDays ==
    \E t \in Threads :
        /\ Returned(t, "get_weekly_statistics")
        /\ DOMAIN ret[t].value.daily_distribution = {0, 1}

----------------------------------------------------------------------------
\* The key of a sample in top_endpoints: its endpoint, or its path when it
\* has no endpoint.
KeyOf(m) == IF m.endpoint = None \/ m.endpoint = "" THEN m.path ELSE m.endpoint

\* The samples matched by t's call whose key is k.
MatchedWithKey(t, k) == {i \in Matched(t) : KeyOf(Window[i]) = k}

----------------------------------------------------------------------------
\* The samples matched by t's call that are errors.
MatchedErrors(t) == {i \in Matched(t) : Window[i].error_occurred}

\* A sample carries a kind of error.
HasKind(m) == m.error_type # None /\ m.error_type # ""

\* C20: error_breakdown[k] of get_weekly_statistics is the number of
\* matched samples with error_occurred and error_type k; a matched error
\* without error_type is counted in total_errors and in no bucket, so the
\* buckets sum to at most total_errors, with equality exactly when every
\* matched error has an error_type.
C20_WeeklyErrorBreakdown ==
    \A t \in Threads :
        (Returned(t, "get_weekly_statistics") /\ NoRecordInFlight) =>
            LET v == ret[t].value
                kinds == {Window[i].error_type :
                              i \in {j \in MatchedErrors(t) : HasKind(Window[j])}}
            IN  /\ v.total_errors = Cardinality(MatchedErrors(t))
                /\ DOMAIN v.error_breakdown = kinds
                /\ \A k \in kinds :
                       v.error_breakdown[k] = Cardinality(
                           {i \in MatchedErrors(t) : Window[i].error_type = k})
                /\ SumValues(v.error_breakdown) <= v.total_errors
                /\ (SumValues(v.error_breakdown) = v.total_errors)
                       <=> (\A i \in MatchedErrors(t) : HasKind(Window[i]))

\* C20 witness: the matched samples hold an error with a kind, an error
\* without kind and a success that carries a kind.
C20_Witness ==
    \E t \in Threads :
        /\ Returned(t, "get_weekly_statistics")
        /\ DOMAIN ret[t].value.error_breakdown # {}
        /\ SumValues(ret[t].value.error_breakdown) < ret[t].value.total_errors
        /\ \E i \in Matched(t) :
               ~Window[i].error_occurred /\ HasKind(Window[i])

----------------------------------------------------------------------------
\* The places where a thread waits for the collector's lock.
LockWaits == {"rr_74", "gs_109", "grr_181", "ger_207", "gart_229", "ges_247",
              "grd_291", "gws_316"}

\* Thread t has started a call that has not returned.
InCall(t) == pc[t] \notin {"idle", "returned"}

\* C21 (first half): no thread waits for the lock while it holds it.
C21_NoReentrantAcquire ==
    \A t \in Threads : pc[t] \in LockWaits => lock # t

----------------------------------------------------------------------------
\* What the collector stores: the retained samples, the totals, the tables.
storage == <<request_history, total_requests, total_errors, tables,
             response_times>>

\* Thread t keeps the value it was handed across the step.
Keeps(t) == pc[t] = "returned" /\ pc'[t] = "returned"

\* C22: a value returned by get_statistics, get_recent_requests or
\* get_requests_by_date_range is not changed by the steps of record_request
\* calls, and a caller's assignment to a value it was handed (a sample of
\* get_requests_by_date_range included) changes nothing the collector
\* stores.
C22_ResultsAreNotReferences ==
    [][\A t \in Threads :
          Keeps(t) =>
              /\ (\E w \in Threads \ {t} : pc'[w] # pc[w]) => ret'[t] = ret[t]
              /\ ret'[t] # ret[t] => UNCHANGED storage]_vars

\* C22, for the results that are built by the call: get_statistics and
\* get_recent_requests.
C22_BuiltResultsAreNotReferences ==
    [][\A t \in Threads :
          (Keeps(t) /\ args[t].op \in {"get_statistics", "get_recent_requests"})
              =>
              /\ (\E w \in Threads \ {t} : pc'[w] # pc[w]) => ret'[t] = ret[t]
              /\ ret'[t] # ret[t] => UNCHANGED storage]_vars

----------------------------------------------------------------------------
\* The ids that add_alert calls have just returned.
ReturnedIds ==
    {ret[t].value : t \in {u \in Threads : Returned(u, "add_alert")}}

\* C23: the ids made by add_alert are pairwise different, those of evicted
\* alerts and of concurrently running calls included, so every id returned
\* differs from every id returned before.
C23_AlertIdsUnique ==
    /\ \A i, j \in 1..Len(issued) : i # j => issued[i] # issued[j]
    /\ ReturnedIds \subseteq {issued[i] : i \in 1..Len(issued)}
    /\ \A t, u \in Threads :
           (t # u /\ Returned(t, "add_alert") /\ Returned(u, "add_alert"))
               => ret[t].value # ret[u].value

\* C23 witness: two concurrent add_alert calls have returned their ids
\* after an earlier alert was evicted.
C23_Witness ==
    /\ \E t, u \in Threads :
           t # u /\ Returned(t, "add_alert") /\ Returned(u, "add_alert")
    /\ Len(issued) > Len(alerts)
    /\ alerts # <<>>

----------------------------------------------------------------------------
\* The ids of the ledger s, in its order.
Ids(s) == [i \in 1..Len(s) |-> s[i].id]

\* The ids of the alerts appended so far, in order: an id is made just
\* before its alert is appended.
AppendedIds ==
    IF \E t \in Threads : pc[t] = "aa_221"
    THEN SubSeq(issued, 1, Len(issued) - 1) ELSE issued

\* C24: the ledger holds at most max_alerts alerts, the most recently added
\* ones in insertion order; its set of alerts changes only in the append of
\* add_alert, never in mark_alert_read, mark_all_read or a query.
C24_LedgerKeepsLastAlerts ==
    /\ [](alert_constructed = "ok" =>
             /\ Len(alerts) <= max_alerts
             /\ Ids(alerts) = LastN(AppendedIds,
                                    Minimum(Len(AppendedIds), max_alerts)))
    /\ [][Ids(alerts') # Ids(alerts) => \E t \in Threads : pc[t] = "aa_221"]_vars

\* C24 witness: a full ledger after an eviction, with mark_all_read,
\* mark_alert_read and a query made since.
C24_Witness ==
    /\ Len(alerts) = max_alerts
    /\ Len(issued) > Len(alerts)
    /\ alerts # <<>>
    /\ \E i \in 1..Len(alerts) : alerts[i].read
    /\ \E t \in Threads :
           /\ prev[t].op \in {"mark_alert_read", "mark_all_read"}
           /\ Returned(t, "get_recent_alerts")

----------------------------------------------------------------------------
\* The positions of the ledger s that get_recent_alerts may list.
Candidates(s, unread_only) ==
    {k \in 1..Len(s) : unread_only => ~s[k].read}

\* C25: for a limit >= 0, get_recent_alerts returns at most limit alerts in
\* non-increasing timestamp order; they are retained alerts (unread ones with
\* unread_only), as many as the limit allows, and no candidate left out has a
\* timestamp greater than a returned one.
C25_RecentAlertsNewestFirst ==
    \A t \in Threads :
        (Returned(t, "get_recent_alerts") /\ args[t].limit >= 0) =>
            LET r    == ret[t].value
                s    == before[t]
                cand == Candidates(s, args[t].unread_only)
                out  == {k \in cand : \A i \in 1..Len(r) : r[i].id # s[k].id}
            IN  /\ Len(r) = Minimum(args[t].limit, Cardinality(cand))
                /\ \A i, j \in 1..Len(r) :
                       i < j => /\ r[i].timestamp >= r[j].timestamp
                                /\ r[i].id # r[j].id
                /\ \A i \in 1..Len(r) :
                       \E k \in cand : r[i] = AlertView(s[k])
                /\ \A k \in out : \A i \in 1..Len(r) :
                       s[k].timestamp <= r[i].timestamp
                /\ args[t].unread_only =>
                       \A i \in 1..Len(r) : ~r[i].read

\* C25 witness: a listing that leaves out an older alert.
C25_Witness ==
    \E t \in Threads :
        /\ Returned(t, "get_recent_alerts")
        /\ args[t].limit = 1
        /\ Len(ret[t].value) = 1
        /\ Len(before[t]) = 2
        /\ before[t][1].timestamp < before[t][2].timestamp
        /\ ret[t].value[1].id = before[t][2].id

\* C25 witness: an unread_only listing that skips the newest alert, which is
\* read.
C25_WitnessUnread ==
    \E t \in Threads :
        /\ Returned(t, "get_recent_alerts")
        /\ args[t].unread_only
        /\ args[t].limit >= 1
        /\ Len(before[t]) = 2
        /\ before[t][2].read
        /\ before[t][1].timestamp < before[t][2].timestamp
        /\ Len(ret[t].value) = 1

----------------------------------------------------------------------------
\* The ids of the unread alerts of the ledger s.
UnreadIds(s) == {s[i].id : i \in {j \in 1..Len(s) : ~s[j].read}}

\* The ids of the alerts of the ledger s.
RetainedIds(s) == {s[i].id : i \in 1..Len(s)}

\* Thread t has returned from the second of two successive calls of
\* mark_alert_read with the same id, of an alert that was unread at the first
\* call and retained at both.
MarkedTwice(t) ==
    /\ Returned(t, "mark_alert_read")
    /\ prev[t].op = "mark_alert_read"
    /\ prev[t].args.alert_id = args[t].alert_id
    /\ args[t].alert_id \in prev[t].unread
    /\ args[t].alert_id \in RetainedIds(before[t])

\* C26: two successive calls of mark_alert_read(id), for an alert unread and
\* retained, both return true; the unread count, which get_unread_count
\* returns, is one less after the two calls than before them, and no other
\* alert's read flag has changed.
C26_MarkReadIdempotent ==
    \A t \in Threads :
        /\ MarkedTwice(t) =>
               /\ prev[t].result = TRUE
               /\ ret[t].value = TRUE
               /\ Unread(alerts) = Cardinality(prev[t].unread) - 1
               /\ UnreadIds(alerts) = prev[t].unread \ {args[t].alert_id}
               /\ alerts = before[t]
        /\ Returned(t, "get_unread_count") =>
               ret[t].value = Cardinality(UnreadIds(before[t]))

\* C26 witness: the second call on one of two unread alerts.
C26_Witness ==
    \E t \in Threads :
        /\ MarkedTwice(t)
        /\ Cardinality(prev[t].unread) = 2
        /\ Len(alerts) = 2

----------------------------------------------------------------------------
\* Thread t has returned from mark_alert_read(id) where id is not the id of a
\* retained alert.
MarkedMissing(t) ==
    /\ Returned(t, "mark_alert_read")
    /\ args[t].alert_id \notin RetainedIds(before[t])

\* C27: mark_alert_read(id) returns false and leaves the ledger, every read
\* flag included, as it was when id is not the id of a retained alert, be it
\* an id never made or the id of an evicted alert.
C27_MarkReadUnknownId ==
    \A t \in Threads :
        MarkedMissing(t) => /\ ret[t].value = FALSE
                            /\ alerts = before[t]

\* C27 witness: the id of an evicted alert, with an unread alert retained.
C27_Witness ==
    \E t \in Threads :
        /\ MarkedMissing(t)
        /\ \E i \in 1..Len(issued) : issued[i] = args[t].alert_id
        /\ Unread(alerts) > 0

\* C27 witness: an id that add_alert never made, with an unread alert
\* retained.
C27_WitnessUnknown ==
    \E t \in Threads :
        /\ MarkedMissing(t)
        /\ args[t].alert_id = UnknownId
        /\ Unread(alerts) > 0

----------------------------------------------------------------------------
\* C28: mark_all_read returns the number of retained alerts that were unread
\* just before the call and leaves every retained alert read and nothing
\* else changed; get_unread_count called right after it returns 0, and so
\* does mark_all_read called right after it.
C28_MarkAllRead ==
    \A t \in Threads :
        /\ Returned(t, "mark_all_read") =>
               /\ ret[t].value = Cardinality(UnreadIds(before[t]))
               /\ \A i \in 1..Len(alerts) : alerts[i].read
               /\ alerts = [i \in 1..Len(before[t]) |->
                               [before[t][i] EXCEPT !.read = TRUE]]
               /\ prev[t].op = "mark_all_read" => ret[t].value = 0
        /\ (Returned(t, "get_unread_count") /\ prev[t].op = "mark_all_read")
               => ret[t].value = 0

\* C28 witness: a call on a ledger of one read and one unread alert.
C28_Witness ==
    \E t \in Threads :
        /\ Returned(t, "mark_all_read")
        /\ Len(before[t]) = 2
        /\ ret[t].value = 1

\* C28 witness: the repeated call, after a call that marked alerts.
C28_WitnessRepeated ==
    \E t \in Threads :
        /\ Returned(t, "mark_all_read")
        /\ prev[t].op = "mark_all_read"
        /\ prev[t].result > 0

\* C28 witness: get_unread_count right after a call that marked alerts.
C28_WitnessCount ==
    \E t \in Threads :
        /\ Returned(t, "get_unread_count")
        /\ prev[t].op = "mark_all_read"
        /\ prev[t].result > 0

----------------------------------------------------------------------------
\* The queries of the collector.
QueryOps ==
    {"get_statistics", "get_recent_requests", "get_error_rate",
     "get_average_response_time", "get_endpoint_stats",
     "get_requests_by_date_range", "get_weekly_statistics"}

\* A step of thread t in a query: its call, each of its statements, its
\* return to the caller.
QueryStep(t) ==
    /\ pc'[t] # pc[t]
    /\ args[t].op \in QueryOps \/ args'[t].op \in QueryOps

\* C29: every step of a query leaves the ring buffer, total_requests,
\* total_errors and the five frequency tables, their key sets included, as
\* they were.
C29_QueriesReadOnly ==
    [][(\E t \in Threads : QueryStep(t)) =>
           /\ request_history' = request_history
           /\ total_requests' = total_requests
           /\ total_errors' = total_errors
           /\ tables' = tables
           /\ \A i \in 1..Len(tables) : DOMAIN tables'[i] = DOMAIN tables[i]]_vars

\* C29 witness: get_weekly_statistics, with its nested query, has returned on
\* a collector with a retained failed request.
C29_Witness ==
    \E t \in Threads :
        /\ Returned(t, "get_weekly_statistics")
        /\ request_history # <<>>
        /\ total_errors > 0
        /\ DOMAIN error_type_counts # {}

\* C29 witness: get_error_rate has returned while no status code 500 was
\* counted.
C29_WitnessErrorRate ==
    \E t \in Threads :
        /\ Returned(t, "get_error_rate")
        /\ 500 \notin DOMAIN status_code_counts

----------------------------------------------------------------------------
\* C30: with a clock that never goes backwards, the retained samples are in
\* non-decreasing timestamp order in every state, however concurrent
\* record_request calls interleave with each other and with the clock.
C30_RetainedInTimestampOrder ==
    \A i, j \in 1..Len(request_history) :
        i < j => request_history[i].timestamp <= request_history[j].timestamp

\* C30 witness: two retained samples of different instants, the clock
\* having advanced since the last one was stamped, while another call waits
\* for the lock.
C30_Witness ==
    /\ Len(request_history) >= 2
    /\ request_history[1].timestamp < request_history[2].timestamp
    /\ \E t \in Writers : pc[t] = "rr_74" /\ lock # NoThread
    /\ \E t \in Writers : pc[t] = "rr_90" /\ metrics[t].timestamp < now

\* C30 witness: two retained samples of different instants after an
\* eviction.
C30_WitnessEvicted ==
    /\ Len(request_history) >= 2
    /\ request_history[1].timestamp < request_history[2].timestamp
    /\ Len(log) > Len(request_history)

----------------------------------------------------------------------------
\* The step appends an alert to the ledger (line 231 of add_alert).
Appends == \E t \in Threads : pc[t] = "aa_221" /\ pc'[t] = "aa_232"

\* C31: the read flag only moves from false to true: an alert is unread
\* when it enters the ledger, a retained alert that is read stays read in
\* every step of every operation, and the number of unread alerts, which
\* get_unread_count returns, rises only in the append of add_alert; after a
\* mark_alert_read or mark_all_read the count is at most what it was before.
C31_ReadFlagMonotonic ==
    /\ [][/\ \A i \in 1..Len(alerts), j \in 1..Len(alerts') :
                 (alerts[i].id = alerts'[j].id /\ alerts[i].read)
                     => alerts'[j].read
          /\ \A j \in 1..Len(alerts') :
                 alerts'[j].id \notin RetainedIds(alerts) => ~alerts'[j].read
          /\ Unread(alerts') > Unread(alerts) => Appends]_vars
    /\ [](\A t \in Threads :
              (/\ Returned(t, "get_unread_count")
               /\ prev[t].op \in {"mark_alert_read", "mark_all_read"})
                  => ret[t].value <= Cardinality(prev[t].unread))

\* C31 witness: get_unread_count after a mark_alert_read of an alert that
\* was read already, with a newer alert unread.
C31_Witness ==
    \E t \in Threads :
        /\ Returned(t, "get_unread_count")
        /\ prev[t].op = "mark_alert_read"
        /\ Len(alerts) = 2
        /\ prev[t].args.alert_id = alerts[1].id
        /\ alerts[1].id \notin prev[t].unread
        /\ alerts[1].read
        /\ ~alerts[2].read
        /\ ret[t].value = 1

\* C31 witness: a read alert is retained while a later add_alert evicts
\* another alert.
C31_WitnessEviction ==
    /\ Len(alerts) = 2
    /\ Len(issued) > 2
    /\ alerts[1].read
    /\ ~alerts[2].read
    /\ \E t \in Threads : Returned(t, "add_alert")

====
